---------------------------- MODULE Spec2Model ----------------------------
(***************************************************************************)
(* Model of the WebGPU black-hole ray tracer's frame driver                *)
(* (webapp/src/RayProcessor.ts): the RayProcessor object, its GPU          *)
(* resources, the accumulation step of the compute kernel, the texture     *)
(* loads and the image export.                                             *)
(*                                                                         *)
(* The colours of the accumulation step are exact rationals <<n, d>>       *)
(* (d > 0, lowest terms).  The scene, the uniform buffer and the ray        *)
(* integration of traceRay hold their f32 values in fixed point: an         *)
(* integer n stands for n / FxOne, and every product, quotient and square   *)
(* root is rounded to that grid (f32 rounds to 24 bits instead).            *)
(***************************************************************************)
EXTENDS Integers, Sequences, FiniteSets, TLC

\* ------------------------------------------------------------------ bounds
MaxW == 2
MaxH == 1
MaxFrames == 3
MaxResizes == 1
MaxLoads == 2
MaxReads == 1
MaxExtra == 1
MaxPending == 2
MaxErrors == 1

\* ------------------------------------------------------- program constants
WorkgroupSize == 16
BytesPerFloat == 4
FloatsPerPixel == 4
BytesPerTexel == 4
UnormMax == 255
DrawVertexCount == 6
DefaultMaxIterations == 100000
DefaultJitterScale == 20

\* ---------------------------------------------------------------- rationals
RECURSIVE Gcd(_, _)
Gcd(a, b) == IF b = 0 THEN a ELSE Gcd(b, a % b)

Abs(a) == IF a < 0 THEN -a ELSE a

Norm(n, d) ==
  LET g == Gcd(Abs(n), Abs(d))
      s == IF d < 0 THEN -1 ELSE 1
  IN  <<(s * n) \div g, (s * d) \div g>>

Rat(i) == <<i, 1>>
RAdd(a, b) == Norm(a[1] * b[2] + b[1] * a[2], a[2] * b[2])
RSub(a, b) == Norm(a[1] * b[2] - b[1] * a[2], a[2] * b[2])
RMul(a, b) == Norm(a[1] * b[1], a[2] * b[2])
RDiv(a, b) == Norm(a[1] * b[2], a[2] * b[1])
RGt(a, b) == a[1] * b[2] > b[1] * a[2]

Zero == Rat(0)
One == Rat(1)
Half == <<1, 2>>

\* A vec4<f32>.
Vec4(r, g, b, a) == <<r, g, b, a>>

\* The per-frame ray colours traceRay can return in the model.
Black == Vec4(Zero, Zero, Zero, Zero)
Grey == Vec4(Half, Zero, One, One)
RayColors == {Black, Grey}

\* -------------------------------------------------------------- fixed point
\* 1.0 in the fixed-point grid.
FxOne == 1024

Fx(i) == i * FxOne
Sgn(a) == IF a < 0 THEN -1 ELSE 1
\* a * b, a / b and a * n / d, rounded toward zero.
FxMul(a, b) == Sgn(a) * Sgn(b) * ((Abs(a) * Abs(b)) \div FxOne)
FxDiv(a, b) == Sgn(a) * Sgn(b) * ((Abs(a) * FxOne) \div Abs(b))
FxFrac(a, n, d) == Sgn(a) * ((Abs(a) * n) \div d)

\* The largest r with r * r <= n.
RECURSIVE ISqrtFrom(_, _)
ISqrtFrom(n, r) == IF (r + 1) * (r + 1) > n THEN r ELSE ISqrtFrom(n, r + 1)
RECURSIVE ISqrt(_)
ISqrt(n) == IF n < 4 THEN ISqrtFrom(n, 0)
            ELSE CHOOSE r \in {ISqrtFrom(n, 2 * h) : h \in {ISqrt(n \div 4)}} : TRUE

\* A vec3<f32> / Vector3D.
Vec3(x, y, z) == <<x, y, z>>
VAdd(a, b) == <<a[1] + b[1], a[2] + b[2], a[3] + b[3]>>
VScale(a, k) == <<FxMul(a[1], k), FxMul(a[2], k), FxMul(a[3], k)>>
\* dot(a, b): the sum is formed in squared units and rounded once.
Dot(a, b) ==
  LET n == a[1] * b[1] + a[2] * b[2] + a[3] * b[3]
  IN  Sgn(n) * (Abs(n) \div FxOne)
\* length(a).
Length(a) == ISqrt(a[1] * a[1] + a[2] * a[2] + a[3] * a[3])
cross3(a, b) ==
  <<FxMul(a[2], b[3]) - FxMul(a[3], b[2]),
    FxMul(a[3], b[1]) - FxMul(a[1], b[3]),
    FxMul(a[1], b[2]) - FxMul(a[2], b[1])>>

\* Math.PI.
MathPI == 3217

\* ------------------------------------------------------- floating point
\* f32 (WGSL) and Number (JavaScript) are binary floating-point formats whose
\* operations round the exact result to the nearest value with a fixed number
\* of significant bits, ties to even.  The model keeps the rounding and
\* scales the number of bits down; the exponent range is not modelled (no
\* overflow, no subnormals).  Values are exact rationals <<n, d>>.
SignificandBits == 4

RLt(a, b) == a[1] * b[2] < b[1] * a[2]

\* The exponent e with 2^(bits - 1) <= n / (d * 2^e) < 2^bits, for n, d > 0.
RECURSIVE FExp(_, _)
FExp(n, d) ==
  IF n >= d * 2 ^ SignificandBits THEN FExp(n, 2 * d) + 1
  ELSE IF n < d * 2 ^ (SignificandBits - 1) THEN FExp(2 * n, d) - 1
  ELSE 0

\* n / d > 0 rounded to the nearest m * 2^e, ties to the even m.
FRoundTo(n, d, e) ==
  LET N == IF e < 0 THEN n * 2 ^ (-e) ELSE n
      D == IF e < 0 THEN d ELSE d * 2 ^ e
      m == N \div D
      r == N - m * D
      up == 2 * r > D \/ (2 * r = D /\ m % 2 = 1)
      mm == IF up THEN m + 1 ELSE m
  IN  IF e < 0 THEN Norm(mm, 2 ^ (-e)) ELSE <<mm * 2 ^ e, 1>>

\* The floating-point value an exact result is rounded to.
FRound(x) ==
  CHOOSE f \in {IF y[1] = 0 THEN y
                ELSE IF y[1] < 0 THEN RSub(Zero, FRoundTo(-y[1], y[2], e))
                ELSE FRoundTo(y[1], y[2], e) :
                  y \in {x}, e \in {IF x[1] = 0 THEN 0 ELSE FExp(Abs(x[1]), x[2])}} : TRUE

FAdd(a, b) == FRound(RAdd(a, b))
FSub(a, b) == FRound(RSub(a, b))
FMul(a, b) == FRound(RMul(a, b))
FDiv(a, b) == FRound(RDiv(a, b))

\* trunc and floor of a floating-point value.
FTrunc(x) == <<Sgn(x[1]) * (Abs(x[1]) \div x[2]), 1>>
FFloor(x) == <<x[1] \div x[2], 1>>

\* WGSL e1 % e2 on f32: e1 - e2 * trunc(e1 / e2).
FRemainder(a, b) == FSub(a, FMul(b, FTrunc(FDiv(a, b))))

\* JavaScript a % b: the exact remainder of the truncating division.
NumberRemainder(a, b) == RSub(a, RMul(b, FTrunc(RDiv(a, b))))

\* Math.sin / Math.cos at the angles the model uses, in hundredths of a
\* radian (the step of the angle sliders).
MathSin == (0 :> 0) @@ (52 :> 509) @@ (147 :> 1019) @@ (157 :> 1024)
           @@ (299 :> 155)
MathCos == (0 :> 1024) @@ (52 :> 889) @@ (147 :> 103) @@ (157 :> 1)
           @@ (299 :> -1012)

\* Math.tan(fovRadians / 2) at the fields of view the model uses (degrees).
MathTanHalf == (20 :> 181) @@ (30 :> 274) @@ (80 :> 859) @@ (150 :> 3822) @@ (170 :> 11704)

\* ------------------------------------------------------------------- scene
\* Scene.updateCameraFromSpherical: the position of the spherical fields.
updateCameraFromSphericalSwapped(sc) ==
  Vec3(FxMul(FxMul(sc.cameraDistance, MathSin[sc.cameraAngleVert]),
             MathCos[sc.cameraAngleHorz]),
       FxMul(FxMul(sc.cameraDistance, MathSin[sc.cameraAngleVert]),
             MathSin[sc.cameraAngleHorz]),
       FxMul(sc.cameraDistance, MathCos[sc.cameraAngleVert]))
updateCameraFromSpherical(sc) ==
  Vec3(FxMul(FxMul(sc.cameraDistance, MathSin[sc.cameraAngleVert]),
             MathCos[sc.cameraAngleHorz]),
       FxMul(sc.cameraDistance, MathCos[sc.cameraAngleVert]),
       FxMul(FxMul(sc.cameraDistance, MathSin[sc.cameraAngleVert]),
             MathSin[sc.cameraAngleHorz]))

\* new Scene(...) as App's constructor builds it: camera at (0, 3, -20),
\* up (-0.3, 1, 0), fov 80, no hitables yet, coefficient -1.5, and the
\* spherical fields the Scene constructor derives with Utils.toSpherical
\* (r = sqrt(409), theta = acos(z / r), phi - 0.1); then stepSize = 0.16.
AppScene ==
  [cameraPosition |-> Vec3(0, Fx(3), Fx(-20)),
   cameraLookAt |-> Vec3(0, 0, 0),
   upVector |-> Vec3(-307, FxOne, 0),
   fov |-> 80,
   cameraDistance |-> 20709,
   cameraAngleHorz |-> 147,
   cameraAngleVert |-> 299,
   hitables |-> <<>>,
   potentialCoefficient |-> -1536,
   stepSize |-> 164]

\* The same scene once initWebGPU has pushed its three objects.
AppSceneLoaded ==
  [AppScene EXCEPT !.hitables = <<"TexturedDisk", "Horizon", "Sky">>]

\* ------------------------------------------------------------------- state
VARIABLES
  width, height,           \* RayProcessor.width / height
  scene,                   \* RayProcessor.scene (the Scene object)
  frameCount,              \* RayProcessor.frameCount
  maxIterations,           \* RayProcessor.maxIterations
  jitterScale,             \* RayProcessor.jitterScale
  outputTexture,           \* [id, w, h, format]
  accumulationBuffer,      \* [id, size]
  diskTexture, skyTexture, \* texture ids
  uniformBindGroup,        \* compute bind group: the resources it references
  renderBindGroup,         \* presentation bind group
  destroyed,               \* ids of the GPU resources destroy() was called on
  uniforms,                \* contents of the uniform buffer
  accData,                 \* contents of the accumulation buffer (array<f32>)
  outData,                 \* contents of the output texture (rgba8unorm texels)
  loads,                   \* the loadDiskTexture / loadSkyTexture calls
  reads,                   \* the getImageData calls
  lastOp,                  \* the handler that ran last
  queueLog,                \* device-queue operations issued by that handler
  lastReturn,              \* value returned by the last processFrame
  nSamples, sumR,          \* history: frames since the last reset, their colours
  kW, kH, kNext, kOwner, kOob, kRan, \* one dispatch, invocation by invocation
  isRendering,             \* App.isRendering
  isFrameByFrame,          \* App.isFrameByFrame
  appRaysPerFrame,         \* App.raysPerFrame
  pendingFrames,           \* requestAnimationFrame callbacks not yet run
  errorLog,                \* uncaptured device errors logged so far
  cameraEdited,            \* history: a handler has set the spherical fields
  sliders,                 \* the values of the App's four parameter sliders
  tPc,                     \* one invocation of traceRay: "idle", "loop", "done"
  tRay,                    \* its ray: [origin, direction, h2]
  tColor, tStop, tIter,    \* its color, stop and iter
  tPrev,                   \* history: the ray before the last ODE substep
  tEvents,                 \* history: what the last loop iteration did
  tSubsteps,               \* history: number of ODE substeps of the loop
  tComposite,              \* history: the last addColor call and its result
  tRefine,                 \* history: the last horizon refinement
  tCoords                  \* history: the last texture lookup and its coordinates

driverVars ==
  <<width, height, scene, frameCount, maxIterations, jitterScale, outputTexture,
    accumulationBuffer, diskTexture, skyTexture, uniformBindGroup,
    renderBindGroup, destroyed, uniforms, accData, outData, loads, reads,
    lastOp, queueLog, lastReturn, nSamples, sumR>>

kernelVars == <<kW, kH, kNext, kOwner, kOob, kRan>>

appVars ==
  <<isRendering, isFrameByFrame, appRaysPerFrame, pendingFrames, errorLog,
    cameraEdited, sliders>>

traceVars ==
  <<tPc, tRay, tColor, tStop, tIter, tPrev, tEvents, tSubsteps, tComposite,
    tRefine, tCoords>>

\* What the handlers of the RayProcessor leave alone.
nonDriverVars == <<kernelVars, appVars, traceVars>>

vars == <<driverVars, kernelVars, appVars, traceVars>>

\* ------------------------------------------------------------------ kernel
\* u32(uniforms.width): width and height are whole numbers far below 2^24, so
\* the f32 holds them exactly, the conversion returns the same number and the
\* u32 index arithmetic of main does not wrap in the modelled range.
u32(x) == x

CeilDiv(a, b) == (a + b - 1) \div b

\* processFrame: workgroupCountX / workgroupCountY.
workgroupCount(w, h) == <<CeilDiv(w, WorkgroupSize), CeilDiv(h, WorkgroupSize)>>

\* The global invocation ids of one dispatch of wg[1] x wg[2] workgroups.
Invocations(wg) ==
  (0 .. wg[1] * WorkgroupSize - 1) \X (0 .. wg[2] * WorkgroupSize - 1)

\* main: the bounds check (negated: the invocation goes on).
InBoundsOff(gid, w, h) == ~(gid[1] > u32(w) \/ gid[2] > u32(h))
InBounds(gid, w, h) == ~(gid[1] >= u32(w) \/ gid[2] >= u32(h))

\* main: pixelIndex.
pixelIndex(gid, w) == (gid[2] * u32(w) + gid[1]) * FloatsPerPixel

\* main: the blend of one channel with the previous accumulated value.
blendPlusTwo(prev, ray, F) ==
  IF F > 0
    THEN LET weight == RDiv(Rat(F), RAdd(Rat(F), Rat(2)))
         IN  RAdd(RMul(prev, weight), RMul(ray, RSub(One, weight)))
    ELSE ray
blend(prev, ray, F) ==
  IF F > 0
    THEN LET weight == RDiv(Rat(F), RAdd(Rat(F), One))
         IN  RAdd(RMul(prev, weight), RMul(ray, RSub(One, weight)))
    ELSE ray

\* textureStore to an rgba8unorm texture: clamp to [0,1], scale, round.
Unorm8(x) ==
  LET c == IF RGt(Zero, x) THEN Zero ELSE IF RGt(x, One) THEN One ELSE x
  IN  (2 * UnormMax * c[1] + c[2]) \div (2 * c[2])

\* The slots of the accumulation buffer an in-bounds invocation touches.
Slots(gid, w) == {pixelIndex(gid, w) + c : c \in 0 .. FloatsPerPixel - 1}

\* The invocations of the dispatch that pass the bounds check of main: those
\* whose x passes its half of the check and whose y passes the other half.
ActiveInvocations(u) ==
  LET wg == workgroupCount(u.width, u.height)
  IN  {x \in 0 .. wg[1] * WorkgroupSize - 1 : ~(x >= u32(u.width))}
        \X {y \in 0 .. wg[2] * WorkgroupSize - 1 : ~(y >= u32(u.height))}

\* The accumulation buffer after one dispatch.  u is the uniform buffer the
\* kernel reads, active the invocations that pass the bounds check, acc the
\* bound buffer, ray the colour traceRay returns per pixel.  An access outside
\* the buffer is dropped (robust buffer access).
mainAccum(u, active, acc, ray) ==
  [i \in DOMAIN acc |->
     LET writer == {g \in active :
                      i - pixelIndex(g, u.width) \in 0 .. FloatsPerPixel - 1}
     IN  IF writer = {} THEN acc[i]
         ELSE LET g == CHOOSE g \in writer : TRUE
                  c == i - pixelIndex(g, u.width)
              IN  blend(acc[i], ray[g][c + 1], u.frameCount)]

\* The output texture after the same dispatch: textureStore of the value the
\* invocation has just written to the accumulation buffer newAcc.
mainOutput(u, active, newAcc, out) ==
  [p \in DOMAIN out |->
     IF p \in active /\ Slots(p, u.width) \subseteq DOMAIN newAcc
       THEN [c \in 1 .. FloatsPerPixel |->
               Unorm8(newAcc[pixelIndex(p, u.width) + c - 1])]
       ELSE out[p]]

\* ---------------------------------------------------------------- resources
Pixels(w, h) == (0 .. w - 1) \X (0 .. h - 1)

ZeroBuffer(size) == [i \in 0 .. (size \div BytesPerFloat) - 1 |-> Zero]
ZeroTexture(w, h) == [p \in Pixels(w, h) |-> [c \in 1 .. FloatsPerPixel |-> 0]]
BlackRays(w, h) == [p \in Pixels(w, h) |-> Black]
ZeroSums(w, h) == [p \in Pixels(w, h) |-> Black]

\* createOutputTexture, for the given width and height.
createOutputTexture(id, w, h) ==
  [id |-> id, w |-> w, h |-> h, format |-> "rgba8unorm"]

\* createAccumulationBuffer: 4 floats per pixel.
createAccumulationBuffer(id, w, h) ==
  [id |-> id, size |-> w * h * FloatsPerPixel * BytesPerFloat]

\* createBindGroup: the compute bind group over the current resources.
createBindGroup(out, disk, sky, acc) ==
  [output |-> out.id, disk |-> disk, sky |-> sky, accum |-> acc.id]

\* createRenderBindGroup: the presentation bind group.
createRenderBindGroup(out) == [output |-> out.id]

BindGroupResources(bg) == {bg.output, bg.disk, bg.sky, bg.accum}

\* updateUniforms: the disk, sky and horizon radii it packs whatever the
\* scene's hitables are.
DiskInnerRadius == 2662
DiskOuterRadius == 12288
SkyRadius == 30720
HorizonRadius == 2048

\* updateUniforms: the values it takes from the scene.  randomSeed
\* (Math.random() * 1000) only seeds the jitter of the view direction, which
\* the model draws as an input; it is packed as 0.
sceneUniformsOf(sc) ==
  [cameraPosition |-> sc.cameraPosition,
   cameraLookAt |-> sc.cameraLookAt,
   upVector |-> sc.upVector,
   fovRadians |-> (sc.fov * MathPI) \div 180,
   tanFov |-> MathTanHalf[sc.fov],
   potentialCoefficient |-> sc.potentialCoefficient,
   stepSize |-> sc.stepSize,
   diskInnerRadius |-> DiskInnerRadius,
   diskOuterRadius |-> DiskOuterRadius,
   skyRadius |-> SkyRadius,
   horizonRadius |-> HorizonRadius,
   randomSeed |-> 0]
sceneUniforms == sceneUniformsOf(scene)

\* updateUniforms: the values packed for this frame (width, height, the two
\* counts and the two jitter parameters as whole numbers).
updateUniformsNextFrame(raysPerFrame) ==
  sceneUniforms @@
  [width |-> width, height |-> height, frameCount |-> frameCount + 1,
   raysPerFrame |-> raysPerFrame, maxIterations |-> maxIterations,
   jitterScale |-> jitterScale]
updateUniforms(raysPerFrame) ==
  sceneUniforms @@
  [width |-> width, height |-> height, frameCount |-> frameCount,
   raysPerFrame |-> raysPerFrame, maxIterations |-> maxIterations,
   jitterScale |-> jitterScale]

\* The uniform buffer as createUniformBuffer leaves it: all zero.
ZeroUniforms ==
  [cameraPosition |-> Vec3(0, 0, 0), cameraLookAt |-> Vec3(0, 0, 0),
   upVector |-> Vec3(0, 0, 0), fovRadians |-> 0, tanFov |-> 0,
   potentialCoefficient |-> 0, stepSize |-> 0, diskInnerRadius |-> 0,
   diskOuterRadius |-> 0, skyRadius |-> 0, horizonRadius |-> 0,
   randomSeed |-> 0,
   width |-> 0, height |-> 0, frameCount |-> 0, raysPerFrame |-> 0,
   maxIterations |-> 0, jitterScale |-> 0]

\* updateUniforms: the Float32Array handed to writeBuffer, float by float.
uniformData(u) ==
  << u.cameraPosition[1], u.cameraPosition[2], u.cameraPosition[3], 0,
     u.cameraLookAt[1], u.cameraLookAt[2], u.cameraLookAt[3], 0,
     u.upVector[1], u.upVector[2], u.upVector[3], 0,
     u.fovRadians, u.tanFov, 0, 0,
     u.potentialCoefficient, u.stepSize, 0, 0,
     u.width, u.height, u.frameCount, u.raysPerFrame,
     u.diskInnerRadius, u.diskOuterRadius, u.skyRadius, u.horizonRadius,
     u.randomSeed, u.maxIterations, u.jitterScale >>

\* ------------------------------------------------------ WGSL struct layout
\* The types of the shader's uniform structs; align 0 is the type's own.
F32 == [kind |-> "f32"]
U32 == [kind |-> "u32"]
Vec3F32 == [kind |-> "vec3"]
Member(name, type, align) == [name |-> name, type |-> type, align |-> align]

\* struct Camera.
Camera ==
  [kind |-> "struct",
   members |-> << Member("position", Vec3F32, 0),
                  Member("lookAt", Vec3F32, 16),
                  Member("up", Vec3F32, 16),
                  Member("fov", F32, 0),
                  Member("tanFov", F32, 0) >>]

\* struct BlackHoleParams.
BlackHoleParams ==
  [kind |-> "struct",
   members |-> << Member("potentialCoefficient", F32, 0),
                  Member("stepSize", F32, 0),
                  Member("_pad1", F32, 8),
                  Member("_pad2", F32, 0) >>]

\* struct Uniforms.
Uniforms ==
  [kind |-> "struct",
   members |-> << Member("camera", Camera, 0),
                  Member("blackHole", BlackHoleParams, 0),
                  Member("width", F32, 16),
                  Member("height", F32, 0),
                  Member("frameCount", F32, 0),
                  Member("raysPerFrame", U32, 0),
                  Member("diskInnerRadius", F32, 0),
                  Member("diskOuterRadius", F32, 0),
                  Member("skyRadius", F32, 0),
                  Member("horizonRadius", F32, 0),
                  Member("randomSeed", F32, 0),
                  Member("maxIterations", F32, 0),
                  Member("jitterScale", F32, 0) >>]

\* WGSL memory layout: alignment and size of a type, offset of a member.
RoundUp(k, n) == ((n + k - 1) \div k) * k
MaxOf(S) == CHOOSE m \in S : \A x \in S : x <= m

RECURSIVE AlignOf(_)
AlignOfMember(m) == IF m.align > 0 THEN m.align ELSE AlignOf(m.type)
AlignOf(t) ==
  CASE t.kind = "vec3" -> 16
    [] t.kind = "struct" ->
         MaxOf({AlignOfMember(t.members[i]) : i \in DOMAIN t.members})
    [] OTHER -> 4

RECURSIVE SizeOf(_)
RECURSIVE OffsetOfMember(_, _)
OffsetOfMember(t, i) ==
  IF i = 1 THEN 0
  ELSE RoundUp(AlignOfMember(t.members[i]),
               OffsetOfMember(t, i - 1) + SizeOf(t.members[i - 1].type))
SizeOf(t) ==
  CASE t.kind = "vec3" -> 12
    [] t.kind = "struct" ->
         LET n == Len(t.members)
         IN  RoundUp(AlignOf(t), OffsetOfMember(t, n) + SizeOf(t.members[n].type))
    [] OTHER -> 4

\* The byte offset of uniforms.<path> in the uniform buffer.
MemberIndex(t, name) == CHOOSE i \in DOMAIN t.members : t.members[i].name = name
RECURSIVE OffsetOf(_, _)
OffsetOf(t, path) ==
  LET i == MemberIndex(t, path[1])
  IN  OffsetOfMember(t, i) +
      (IF Len(path) = 1 THEN 0 ELSE OffsetOf(t.members[i].type, Tail(path)))

\* What the kernel reads at a byte offset of the buffer the array was written
\* to at offset 0; past the written bytes the buffer is still zero.
ReadF32(data, offset) ==
  IF offset \div BytesPerFloat + 1 \in DOMAIN data
    THEN data[offset \div BytesPerFloat + 1] ELSE 0
ReadVec3(data, offset) ==
  Vec3(ReadF32(data, offset), ReadF32(data, offset + BytesPerFloat),
       ReadF32(data, offset + 2 * BytesPerFloat))

\* The uniform fields the kernel reads, as it reads them from the buffer.
KernelUniforms(data) ==
  [camera |->
     [position |-> ReadVec3(data, OffsetOf(Uniforms, <<"camera", "position">>)),
      lookAt |-> ReadVec3(data, OffsetOf(Uniforms, <<"camera", "lookAt">>)),
      up |-> ReadVec3(data, OffsetOf(Uniforms, <<"camera", "up">>)),
      tanFov |-> ReadF32(data, OffsetOf(Uniforms, <<"camera", "tanFov">>))],
   blackHole |->
     [potentialCoefficient |->
        ReadF32(data, OffsetOf(Uniforms, <<"blackHole", "potentialCoefficient">>)),
      stepSize |-> ReadF32(data, OffsetOf(Uniforms, <<"blackHole", "stepSize">>))],
   width |-> ReadF32(data, OffsetOf(Uniforms, <<"width">>)),
   height |-> ReadF32(data, OffsetOf(Uniforms, <<"height">>)),
   frameCount |-> ReadF32(data, OffsetOf(Uniforms, <<"frameCount">>)),
   diskInnerRadius |-> ReadF32(data, OffsetOf(Uniforms, <<"diskInnerRadius">>)),
   diskOuterRadius |-> ReadF32(data, OffsetOf(Uniforms, <<"diskOuterRadius">>)),
   skyRadius |-> ReadF32(data, OffsetOf(Uniforms, <<"skyRadius">>)),
   horizonRadius |-> ReadF32(data, OffsetOf(Uniforms, <<"horizonRadius">>)),
   randomSeed |-> ReadF32(data, OffsetOf(Uniforms, <<"randomSeed">>)),
   maxIterations |-> ReadF32(data, OffsetOf(Uniforms, <<"maxIterations">>)),
   jitterScale |-> ReadF32(data, OffsetOf(Uniforms, <<"jitterScale">>))]

\* traceRay: the camera-space x of pixel column i, (i / W - 0.5) * tanFov.
cameraSpaceX(ku, i) == FxMul(FxDiv(Fx(i), Fx(ku.width)) - FxOne \div 2, ku.camera.tanFov)

\* processFrame: what it issues to the device queue, in order.
ComputePass(wg) ==
  [pass |-> "compute", bindGroup |-> uniformBindGroup, dispatch |-> wg]
RenderPass ==
  [pass |-> "render", bindGroup |-> renderBindGroup, draw |-> DrawVertexCount]
processFrameQueueOpsTwoSubmits(u, wg) ==
  << [op |-> "writeBuffer", data |-> u],
     [op |-> "submit", commands |-> <<ComputePass(wg)>>],
     [op |-> "submit", commands |-> <<RenderPass>>] >>
processFrameQueueOps(u, wg) ==
  << [op |-> "writeBuffer", data |-> u],
     [op |-> "submit", commands |-> <<ComputePass(wg), RenderPass>>] >>

\* No handler is in the middle of its synchronous run.
Idle == \A l \in DOMAIN loads : loads[l].pc # "swap"

\* History of the frames since the last reset (not program state).
HistoryReset(w, h) ==
  /\ nSamples' = 0
  /\ sumR' = ZeroSums(w, h)

\* ------------------------------------------------------------------- Init
DriverInit ==
  /\ width = MaxW
  /\ height = MaxH
  /\ scene = AppScene
  /\ frameCount = 0
  /\ maxIterations = DefaultMaxIterations
  /\ jitterScale = DefaultJitterScale
  /\ outputTexture = createOutputTexture(<<"out", 0>>, width, height)
  /\ accumulationBuffer = createAccumulationBuffer(<<"acc", 0>>, width, height)
  /\ diskTexture = <<"disk", 0>>
  /\ skyTexture = <<"sky", 0>>
  /\ uniformBindGroup =
       createBindGroup(outputTexture, diskTexture, skyTexture, accumulationBuffer)
  /\ renderBindGroup = createRenderBindGroup(outputTexture)
  /\ destroyed = {}
  /\ uniforms = ZeroUniforms
  /\ accData = ZeroBuffer(accumulationBuffer.size)
  /\ outData = ZeroTexture(width, height)
  /\ loads = <<>>
  /\ reads = <<>>
  /\ lastOp = "constructor"
  /\ queueLog = <<>>
  /\ lastReturn = 0
  /\ nSamples = 0
  /\ sumR = ZeroSums(width, height)

\* No dispatch is being followed invocation by invocation.
KernelIdle ==
  /\ kW = 0
  /\ kH = 0
  /\ kNext = 0
  /\ kOwner = <<>>
  /\ kOob = {}
  /\ kRan = {}

\* The App as its constructor leaves it.
AppInit ==
  /\ isRendering = FALSE
  /\ isFrameByFrame = FALSE
  /\ appRaysPerFrame = 1000
  /\ pendingFrames = 0
  /\ errorLog = 0
  /\ cameraEdited = FALSE
  /\ sliders = [potentialCoefficient |-> -1536, stepSize |-> 51, fov |-> 80,
                quality |-> 5]

\* No invocation of traceRay is being followed.
TraceIdle ==
  /\ tPc = "idle"
  /\ tRay = <<>>
  /\ tColor = Black
  /\ tStop = FALSE
  /\ tIter = 0
  /\ tPrev = <<>>
  /\ tEvents = <<>>
  /\ tSubsteps = 0
  /\ tComposite = <<>>
  /\ tRefine = <<>>
  /\ tCoords = <<>>

Init == DriverInit /\ KernelIdle /\ AppInit /\ TraceIdle

\* ---------------------------------------------------------------- actions
\* The submission is valid when nothing the bind groups reference is destroyed.
SubmitValid ==
  /\ BindGroupResources(uniformBindGroup) \cap destroyed = {}
  /\ renderBindGroup.output \notin destroyed

\* processFrame(raysPerFrame); ray is what traceRay returns for each pixel.
processFrame(raysPerFrame, ray) ==
  LET u == updateUniforms(raysPerFrame)
      wg == workgroupCount(width, height)
  IN  /\ Idle
      /\ frameCount < MaxFrames
      /\ uniforms' = u
      /\ queueLog' = processFrameQueueOps(u, wg)
      /\ IF SubmitValid /\ uniformBindGroup.accum = accumulationBuffer.id
                        /\ uniformBindGroup.output = outputTexture.id
           THEN \E active \in {ActiveInvocations(u)} :
                  /\ accData' = mainAccum(u, active, accData, ray)
                  /\ outData' = mainOutput(u, active, accData', outData)
           ELSE UNCHANGED <<accData, outData>>
      /\ frameCount' = frameCount + 1
      /\ lastReturn' = width * height
      /\ lastOp' = "processFrame"
      /\ nSamples' = nSamples + 1
      /\ sumR' = [p \in DOMAIN sumR |->
                    [c \in 1 .. FloatsPerPixel |-> RAdd(sumR[p][c], ray[p][c])]]
      /\ UNCHANGED <<width, height, scene, maxIterations, jitterScale,
                     outputTexture, accumulationBuffer, diskTexture, skyTexture,
                     uniformBindGroup, renderBindGroup, destroyed, loads, reads>>
      /\ UNCHANGED nonDriverVars

\* reset(): the assignment, as the other handlers call it.
resetKeepsCount == frameCount' = frameCount
reset == frameCount' = 0

\* reset() called on its own.
Reset ==
  /\ Idle
  /\ reset
  /\ lastOp' = "reset"
  /\ queueLog' = <<>>
  /\ HistoryReset(width, height)
  /\ UNCHANGED <<width, height, scene, maxIterations, jitterScale,
                 outputTexture, accumulationBuffer, diskTexture, skyTexture,
                 uniformBindGroup, renderBindGroup, destroyed, uniforms, accData,
                 outData, loads, reads, lastReturn>>
  /\ UNCHANGED nonDriverVars

\* resize(w, h).
Gen == outputTexture.id[2]

resizeKeepsBindGroup(w, h) ==
  /\ Idle
  /\ Gen < MaxResizes
  /\ width' = w
  /\ height' = h
  /\ destroyed' = destroyed \cup {outputTexture.id, accumulationBuffer.id}
  /\ outputTexture' = createOutputTexture(<<"out", Gen + 1>>, w, h)
  /\ accumulationBuffer' = createAccumulationBuffer(<<"acc", Gen + 1>>, w, h)
  /\ uniformBindGroup' =
       createBindGroup(outputTexture', diskTexture, skyTexture, accumulationBuffer')
  /\ renderBindGroup' = renderBindGroup
  /\ frameCount' = 0
  /\ accData' = ZeroBuffer(accumulationBuffer'.size)
  /\ outData' = ZeroTexture(w, h)
  /\ lastOp' = "resize"
  /\ queueLog' = <<>>
  /\ HistoryReset(w, h)
  /\ UNCHANGED <<scene, maxIterations, jitterScale, diskTexture, skyTexture,
                 uniforms, loads, reads, lastReturn>>
  /\ UNCHANGED nonDriverVars
resize(w, h) ==
  /\ Idle
  /\ Gen < MaxResizes
  /\ width' = w
  /\ height' = h
  /\ destroyed' = destroyed \cup {outputTexture.id, accumulationBuffer.id}
  /\ outputTexture' = createOutputTexture(<<"out", Gen + 1>>, w, h)
  /\ accumulationBuffer' = createAccumulationBuffer(<<"acc", Gen + 1>>, w, h)
  /\ uniformBindGroup' =
       createBindGroup(outputTexture', diskTexture, skyTexture, accumulationBuffer')
  /\ renderBindGroup' = createRenderBindGroup(outputTexture')
  /\ frameCount' = 0
  /\ accData' = ZeroBuffer(accumulationBuffer'.size)
  /\ outData' = ZeroTexture(w, h)
  /\ lastOp' = "resize"
  /\ queueLog' = <<>>
  /\ HistoryReset(w, h)
  /\ UNCHANGED <<scene, maxIterations, jitterScale, diskTexture, skyTexture,
                 uniforms, loads, reads, lastReturn>>
  /\ UNCHANGED nonDriverVars

\* setScene(scene).
setScene(s) ==
  /\ Idle
  /\ scene' = s
  /\ reset
  /\ lastOp' = "setScene"
  /\ queueLog' = <<>>
  /\ HistoryReset(width, height)
  /\ UNCHANGED <<width, height, maxIterations, jitterScale,
                 outputTexture, accumulationBuffer, diskTexture, skyTexture,
                 uniformBindGroup, renderBindGroup, destroyed, uniforms, accData,
                 outData, loads, reads, lastReturn>>
  /\ UNCHANGED nonDriverVars

\* setMaxIterations(iterations): assigns, logs, and does not call reset().
setMaxIterations(iterations) ==
  /\ Idle
  /\ maxIterations' = iterations
  /\ lastOp' = "setMaxIterations"
  /\ queueLog' = <<>>
  /\ UNCHANGED <<width, height, scene, frameCount, jitterScale,
                 outputTexture, accumulationBuffer, diskTexture, skyTexture,
                 uniformBindGroup, renderBindGroup, destroyed, uniforms, accData,
                 outData, loads, reads, lastReturn, nSamples, sumR>>
  /\ UNCHANGED nonDriverVars

\* setJitterScale(scale): assigns, logs, and does not call reset().
setJitterScale(scale) ==
  /\ Idle
  /\ jitterScale' = scale
  /\ lastOp' = "setJitterScale"
  /\ queueLog' = <<>>
  /\ UNCHANGED <<width, height, scene, frameCount, maxIterations,
                 outputTexture, accumulationBuffer, diskTexture, skyTexture,
                 uniformBindGroup, renderBindGroup, destroyed, uniforms, accData,
                 outData, loads, reads, lastReturn, nSamples, sumR>>
  /\ UNCHANGED nonDriverVars

\* ------------------------------------------------------------ texture loads
\* loadDiskTexture(url) / loadSkyTexture(url) run up to their first await.
\* A call is [kind, pc]; pc is the await it is suspended at ("fetch": fetch
\* and blob, "decode": createImageBitmap), "swap" inside its last synchronous
\* run, "done" when its promise has resolved, "rejected" when it has rejected.
\* The texture call l creates is <<kind, l>>.
CurrentTexture(kind) == IF kind = "disk" THEN diskTexture ELSE skyTexture
LoadedName(kind) == IF kind = "disk" THEN "loadDiskTexture" ELSE "loadSkyTexture"

loadTextureCall(kind) ==
  /\ Idle
  /\ Len(loads) < MaxLoads
  /\ loads' = Append(loads, [kind |-> kind, pc |-> "fetch"])
  /\ lastOp' = "loadCall"
  /\ queueLog' = <<>>
  /\ UNCHANGED <<width, height, scene, frameCount, maxIterations, jitterScale,
                 outputTexture, accumulationBuffer, diskTexture, skyTexture,
                 uniformBindGroup, renderBindGroup, destroyed, uniforms, accData,
                 outData, reads, lastReturn, nSamples, sumR>>
  /\ UNCHANGED nonDriverVars

\* fetch and response.blob() have resolved.
loadFetched(l) ==
  /\ Idle
  /\ loads[l].pc = "fetch"
  /\ loads' = [loads EXCEPT ![l].pc = "decode"]
  /\ lastOp' = "loadFetched"
  /\ queueLog' = <<>>
  /\ UNCHANGED <<width, height, scene, frameCount, maxIterations, jitterScale,
                 outputTexture, accumulationBuffer, diskTexture, skyTexture,
                 uniformBindGroup, renderBindGroup, destroyed, uniforms, accData,
                 outData, reads, lastReturn, nSamples, sumR>>
  /\ UNCHANGED nonDriverVars

\* An awaited fetch, blob or createImageBitmap rejects (or the 2D context is
\* missing): the async function throws at the await and its promise rejects.
loadFailedDestroysOld(l) ==
  /\ Idle
  /\ loads[l].pc \in {"fetch", "decode"}
  /\ loads' = [loads EXCEPT ![l].pc = "rejected"]
  /\ destroyed' = destroyed \cup {CurrentTexture(loads[l].kind)}
  /\ reset
  /\ lastOp' = "loadRejected"
  /\ queueLog' = <<>>
  /\ UNCHANGED <<width, height, scene, maxIterations, jitterScale,
                 outputTexture, accumulationBuffer, diskTexture, skyTexture,
                 uniformBindGroup, renderBindGroup, uniforms, accData,
                 outData, reads, lastReturn, nSamples, sumR>>
  /\ UNCHANGED nonDriverVars
loadFailed(l) ==
  /\ Idle
  /\ loads[l].pc \in {"fetch", "decode"}
  /\ loads' = [loads EXCEPT ![l].pc = "rejected"]
  /\ lastOp' = "loadRejected"
  /\ queueLog' = <<>>
  /\ UNCHANGED <<width, height, scene, frameCount, maxIterations, jitterScale,
                 outputTexture, accumulationBuffer, diskTexture, skyTexture,
                 uniformBindGroup, renderBindGroup, destroyed, uniforms, accData,
                 outData, reads, lastReturn, nSamples, sumR>>
  /\ UNCHANGED nonDriverVars

\* The decode has resolved; the rest of the function runs without an await.
\* First part: createTexture, copyExternalImageToTexture, then destroy() on
\* the texture in use.
loadDestroyOld(l) ==
  /\ Idle
  /\ loads[l].pc = "decode"
  /\ loads' = [loads EXCEPT ![l].pc = "swap"]
  /\ queueLog' = << [op |-> "copyExternalImageToTexture",
                     texture |-> <<loads[l].kind, l>>] >>
  /\ destroyed' = destroyed \cup {CurrentTexture(loads[l].kind)}
  /\ lastOp' = "loadDestroyOld"
  /\ UNCHANGED <<width, height, scene, frameCount, maxIterations, jitterScale,
                 outputTexture, accumulationBuffer, diskTexture, skyTexture,
                 uniformBindGroup, renderBindGroup, uniforms, accData,
                 outData, reads, lastReturn, nSamples, sumR>>
  /\ UNCHANGED nonDriverVars

\* Second part, in the same run: assign the new texture, createBindGroup(),
\* reset(); the promise resolves.
loadInstallKeepsBindGroup(l) ==
  /\ loads[l].pc = "swap"
  /\ loads' = [loads EXCEPT ![l].pc = "done"]
  /\ diskTexture' = IF loads[l].kind = "disk" THEN <<"disk", l>> ELSE diskTexture
  /\ skyTexture' = IF loads[l].kind = "sky" THEN <<"sky", l>> ELSE skyTexture
  /\ uniformBindGroup' = uniformBindGroup
  /\ reset
  /\ lastOp' = LoadedName(loads[l].kind)
  /\ HistoryReset(width, height)
  /\ UNCHANGED <<width, height, scene, maxIterations, jitterScale,
                 outputTexture, accumulationBuffer, renderBindGroup, destroyed,
                 uniforms, accData, outData, reads, lastReturn, queueLog>>
  /\ UNCHANGED nonDriverVars
loadInstall(l) ==
  /\ loads[l].pc = "swap"
  /\ loads' = [loads EXCEPT ![l].pc = "done"]
  /\ diskTexture' = IF loads[l].kind = "disk" THEN <<"disk", l>> ELSE diskTexture
  /\ skyTexture' = IF loads[l].kind = "sky" THEN <<"sky", l>> ELSE skyTexture
  /\ uniformBindGroup' =
       createBindGroup(outputTexture, diskTexture', skyTexture', accumulationBuffer)
  /\ reset
  /\ lastOp' = LoadedName(loads[l].kind)
  /\ HistoryReset(width, height)
  /\ UNCHANGED <<width, height, scene, maxIterations, jitterScale,
                 outputTexture, accumulationBuffer, renderBindGroup, destroyed,
                 uniforms, accData, outData, reads, lastReturn, queueLog>>
  /\ UNCHANGED nonDriverVars

\* ------------------------------------------------------------ getImageData
\* copyTextureToBuffer as getImageData records it.
copyCommand(buf) ==
  [copy |-> "textureToBuffer", texture |-> outputTexture.id, buffer |-> buf.id,
   bytesPerRow |-> width * BytesPerTexel, extent |-> <<width, height>>]

\* getImageData() up to the mapAsync call: staging buffer, copy, submit.
getImageData ==
  LET r == Len(reads) + 1
      readBuffer == [id |-> <<"read", r>>, size |-> width * height * BytesPerTexel]
  IN  /\ Idle
      /\ Len(reads) < MaxReads
      /\ queueLog' = << [op |-> "submit", commands |-> <<copyCommand(readBuffer)>>] >>
      /\ reads' = Append(reads, [pc |-> "mapping", buffer |-> readBuffer,
                                 copy |-> copyCommand(readBuffer),
                                 dataLen |-> 0, w |-> 0, h |-> 0])
      /\ lastOp' = "getImageData"
      /\ UNCHANGED <<width, height, scene, frameCount, maxIterations, jitterScale,
                     outputTexture, accumulationBuffer, diskTexture, skyTexture,
                     uniformBindGroup, renderBindGroup, destroyed, uniforms,
                     accData, outData, loads, lastReturn, nSamples, sumR>>
      /\ UNCHANGED nonDriverVars

\* new ImageData(data, sw, sh) throws unless data holds sw * sh RGBA pixels.
ImageDataAccepts(len, sw, sh) == len = BytesPerTexel * sw * sh

\* mapAsync resolved: the then-callback of getImageData.  When the ImageData
\* constructor throws the callback ends there: no unmap, no destroy, no resolve.
mapResolvedKeepsBuffer(r) ==
  LET len == reads[r].buffer.size
  IN  /\ Idle
      /\ reads[r].pc = "mapping"
      /\ IF ImageDataAccepts(len, width, height)
           THEN /\ reads' = [reads EXCEPT ![r].pc = "resolved", ![r].dataLen = len,
                                          ![r].w = width, ![r].h = height]
                /\ destroyed' = destroyed
           ELSE /\ reads' = [reads EXCEPT ![r].pc = "threw"]
                /\ destroyed' = destroyed
      /\ lastOp' = "mapResolved"
      /\ queueLog' = <<>>
      /\ UNCHANGED <<width, height, scene, frameCount, maxIterations, jitterScale,
                     outputTexture, accumulationBuffer, diskTexture, skyTexture,
                     uniformBindGroup, renderBindGroup, uniforms,
                     accData, outData, loads, lastReturn, nSamples, sumR>>
      /\ UNCHANGED nonDriverVars
mapResolved(r) ==
  LET len == reads[r].buffer.size
  IN  /\ Idle
      /\ reads[r].pc = "mapping"
      /\ IF ImageDataAccepts(len, width, height)
           THEN /\ reads' = [reads EXCEPT ![r].pc = "resolved", ![r].dataLen = len,
                                          ![r].w = width, ![r].h = height]
                /\ destroyed' = destroyed \cup {reads[r].buffer.id}
           ELSE /\ reads' = [reads EXCEPT ![r].pc = "threw"]
                /\ destroyed' = destroyed
      /\ lastOp' = "mapResolved"
      /\ queueLog' = <<>>
      /\ UNCHANGED <<width, height, scene, frameCount, maxIterations, jitterScale,
                     outputTexture, accumulationBuffer, diskTexture, skyTexture,
                     uniformBindGroup, renderBindGroup, uniforms,
                     accData, outData, loads, lastReturn, nSamples, sumR>>
      /\ UNCHANGED nonDriverVars

\* mapAsync rejected: getImageData registers no rejection handler, so nothing
\* of it runs and its promise stays pending.
mapRejected(r) ==
  /\ Idle
  /\ reads[r].pc = "mapping"
  /\ reads' = [reads EXCEPT ![r].pc = "mapFailed"]
  /\ lastOp' = "mapRejected"
  /\ queueLog' = <<>>
  /\ UNCHANGED <<width, height, scene, frameCount, maxIterations, jitterScale,
                 outputTexture, accumulationBuffer, diskTexture, skyTexture,
                 uniformBindGroup, renderBindGroup, destroyed, uniforms,
                 accData, outData, loads, lastReturn, nSamples, sumR>>
  /\ UNCHANGED nonDriverVars

\* --------------------------------------------------------------------- App
\* What no App handler touches.
gpuObjects ==
  <<width, height, outputTexture, accumulationBuffer, diskTexture, skyTexture,
    uniformBindGroup, renderBindGroup, destroyed, loads, reads>>

\* rayProcessor.processFrame(this.raysPerFrame) as App.render calls it at the
\* end of a handler that has already left the driver with scene sc, frame
\* count fc, parameters mi and js and history ns, sums.
renderCall(sc, fc, mi, js, ns, sums, rpf, ray) ==
  LET u == sceneUniformsOf(sc) @@
           [width |-> width, height |-> height, frameCount |-> fc,
            raysPerFrame |-> rpf, maxIterations |-> mi, jitterScale |-> js]
      wg == workgroupCount(width, height)
  IN  /\ Idle
      /\ fc < MaxFrames
      /\ uniforms' = u
      /\ queueLog' = processFrameQueueOps(u, wg)
      /\ IF SubmitValid /\ uniformBindGroup.accum = accumulationBuffer.id
                        /\ uniformBindGroup.output = outputTexture.id
           THEN \E active \in {ActiveInvocations(u)} :
                  /\ accData' = mainAccum(u, active, accData, ray)
                  /\ outData' = mainOutput(u, active, accData', outData)
           ELSE UNCHANGED <<accData, outData>>
      /\ frameCount' = fc + 1
      /\ lastReturn' = width * height
      /\ lastOp' = "processFrame"
      /\ nSamples' = ns + 1
      /\ sumR' = [p \in DOMAIN sums |->
                    [c \in 1 .. FloatsPerPixel |-> RAdd(sums[p][c], ray[p][c])]]

\* App.render when isRendering holds: a frame, and the next one requested.
renderFrame(sc, fc, mi, js, ns, sums, rpf, ray) ==
  /\ pendingFrames < MaxPending
  /\ renderCall(sc, fc, mi, js, ns, sums, rpf, ray)
  /\ pendingFrames' = pendingFrames + 1

\* A handler that resets the driver and, if rendering was on, renders at once.
resetAndResume(sc, mi, js, rpf, name) ==
  IF isRendering
    THEN \E ray \in {BlackRays(width, height)} :
           renderFrame(sc, 0, mi, js, 0, ZeroSums(width, height), rpf, ray)
    ELSE /\ reset
         /\ HistoryReset(width, height)
         /\ lastOp' = name
         /\ queueLog' = <<>>
         /\ UNCHANGED <<uniforms, accData, outData, lastReturn, pendingFrames>>

\* App.toggleFrameByFrame.
toggleFrameByFrame ==
  /\ isFrameByFrame' = ~isFrameByFrame
  /\ UNCHANGED <<driverVars, kernelVars, traceVars, isRendering, appRaysPerFrame,
                 pendingFrames, errorLog, cameraEdited, sliders>>

\* App.toggleRendering: Start renders a frame at once (and stops again in
\* frame-by-frame mode); Stop only clears the flag.
toggleRendering ==
  /\ IF ~isRendering
       THEN /\ \E ray \in {BlackRays(width, height)} :
                 renderFrame(scene, frameCount, maxIterations, jitterScale,
                             nSamples, sumR, appRaysPerFrame, ray)
            /\ isRendering' = ~isFrameByFrame
       ELSE /\ isRendering' = FALSE
            /\ lastOp' = "toggleRendering"
            /\ queueLog' = <<>>
            /\ UNCHANGED <<uniforms, accData, outData, frameCount, lastReturn,
                           nSamples, sumR, pendingFrames>>
  /\ UNCHANGED <<scene, maxIterations, jitterScale, gpuObjects, kernelVars, traceVars,
                 isFrameByFrame, appRaysPerFrame, errorLog, cameraEdited, sliders>>

\* App.render run as a requestAnimationFrame callback.
render ==
  /\ pendingFrames > 0
  /\ IF isRendering
       THEN \E ray \in {BlackRays(width, height)} :
              /\ renderCall(scene, frameCount, maxIterations, jitterScale,
                            nSamples, sumR, appRaysPerFrame, ray)
              /\ UNCHANGED pendingFrames
       ELSE /\ pendingFrames' = pendingFrames - 1
            /\ lastOp' = "render"
            /\ queueLog' = <<>>
            /\ UNCHANGED <<uniforms, accData, outData, frameCount, lastReturn,
                           nSamples, sumR>>
  /\ UNCHANGED <<scene, maxIterations, jitterScale, gpuObjects, kernelVars, traceVars,
                 isRendering, isFrameByFrame, appRaysPerFrame, errorLog,
                 cameraEdited, sliders>>

\* App.updateParameters, the 'input' listener of the coefficient, step size,
\* field of view and quality sliders, after the slider named has taken the
\* value: the values of the sliders go into the scene the driver shares, then
\* setMaxIterations, setJitterScale and reset, then the frame.
updateParameters(slider, value) ==
  /\ sliders' = [sliders EXCEPT ![slider] = value]
  /\ scene' = [scene EXCEPT
                 !.potentialCoefficient = sliders'.potentialCoefficient,
                 !.stepSize = sliders'.stepSize,
                 !.fov = sliders'.fov]
  /\ appRaysPerFrame' = 500 + sliders'.quality * 500
  /\ maxIterations' = 20000 + sliders'.quality * 5000
  /\ jitterScale' = 20
  /\ resetAndResume(scene', maxIterations', jitterScale', appRaysPerFrame',
                    "updateParameters")
  /\ UNCHANGED <<gpuObjects, kernelVars, traceVars, isRendering, isFrameByFrame, errorLog,
                 cameraEdited>>

\* App.updateCameraPosition: the slider values go into the spherical fields,
\* then Scene.updateCameraFromSpherical and reset, then the frame.
updateCameraPosition(d, h, v) ==
  /\ scene' =
       LET e == [scene EXCEPT !.cameraDistance = d, !.cameraAngleHorz = h,
                              !.cameraAngleVert = v]
       IN  [e EXCEPT !.cameraPosition = updateCameraFromSpherical(e)]
  /\ cameraEdited' = TRUE
  /\ resetAndResume(scene', maxIterations, jitterScale, appRaysPerFrame,
                    "updateCameraPosition")
  /\ UNCHANGED <<maxIterations, jitterScale, gpuObjects, kernelVars, traceVars,
                 isRendering, isFrameByFrame, appRaysPerFrame, errorLog,
                 sliders>>

\* The 'uncapturederror' listener of initWebGPU: three console.error calls.
uncapturederror ==
  /\ errorLog < MaxErrors
  /\ errorLog' = errorLog + 1
  /\ UNCHANGED <<driverVars, kernelVars, traceVars, isRendering, isFrameByFrame,
                 appRaysPerFrame, pendingFrames, cameraEdited, sliders>>

\* ---------------------------------------------------------------- traceRay
RMax(a, b) == IF RGt(a, b) THEN a ELSE b
RMin(a, b) == IF RGt(a, b) THEN b ELSE a

\* addColor of the kernel: the first argument is passed through when the
\* second has alpha 0; otherwise each channel is the first argument's channel
\* scaled by one minus the brightness of the second, plus the second's
\* channel times 255/205, cut at 1, with alpha 1.
addColor(hitColor, tintColor) ==
  IF tintColor[4] = Zero THEN hitColor
  ELSE
    LET brightness ==
          RDiv(RAdd(RMax(RMax(tintColor[1], tintColor[2]), tintColor[3]),
                    RMin(RMin(tintColor[1], tintColor[2]), tintColor[3])),
               Rat(2))
        channel(i) ==
          RAdd(RMul(RSub(One, brightness), hitColor[i]),
               RDiv(RMul(RMax(tintColor[i], Zero), Rat(255)), Rat(205)))
    IN Vec4(RMin(channel(1), One), RMin(channel(2), One),
            RMin(channel(3), One), One)

\* The disk and the sky texture are uniformly coloured images: every sample
\* of one texture is the same texel.
SkyTexel == Vec4(<<1, 4>>, <<1, 4>>, <<1, 4>>, One)
textureSampleLevel(texture) ==
  IF texture = "diskTexture" THEN Grey ELSE SkyTexel

BlackColor == Vec4(Zero, Zero, Zero, One)

BisectionRounds == 10

\* sqrt of a fixed-point number.
FxSqrt(x) == ISqrt(x * FxOne)

\* potentialCoefficient * h2 / pow(r2, 2.5) at the point p. The quotient is
\* taken in three steps (by r2, by r2, by sqrt(r2)) and the coefficient is
\* multiplied in last, so that no intermediate leaves the integers of TLC.
gravity(ku, h2, p) ==
  LET r2 == Dot(p, p)
  IN FxMul(ku.blackHole.potentialCoefficient,
           FxDiv(FxDiv(FxDiv(h2, r2), r2), FxSqrt(r2)))

setInitialConditions(origin, direction) ==
  LET c == cross3(origin, direction)
  IN [origin |-> origin, direction |-> direction, h2 |-> Dot(c, c)]

\* A vec3 whose components are NaN.
NaNVec3 == <<"NaN">>

\* The substep of the ray equation. When the new position is the centre, r2
\* and pow(r2, 2.5) are 0 and the origin (0, 0, 0) is multiplied by 0/0 or by
\* an infinity: acceleration and direction become NaN.
applyEquation(ku, ray, step) ==
  LET origin == VAdd(ray.origin, VScale(ray.direction, step))
      accel == VScale(origin, gravity(ku, ray.h2, origin))
  IN [origin |-> origin,
      direction |-> IF origin = Vec3(0, 0, 0) THEN NaNVec3
                    ELSE VAdd(ray.direction, VScale(accel, step)),
      h2 |-> ray.h2]

\* stepLow, stepHigh and stepMid of the horizon refinement are kept in units
\* of 1/(FxOne * FxOne), where ten halvings of a step are exact.
Fine(step) == step * FxOne

\* v * t for a step t in the fine unit.
FineScale(v, t) ==
  LET hi == t \div FxOne
      lo == t % FxOne
      part(i) == FxMul(v[i], hi) + Sgn(v[i]) * ((Abs(v[i]) * lo) \div (FxOne * FxOne))
  IN <<part(1), part(2), part(3)>>

\* One trial of the refinement: the substep of applyEquation with stepMid,
\* from prevPoint, with the direction the ray has after the substep of the
\* loop.
trial(ku, prevPoint, ray, stepMid) ==
  LET intersectionPoint == VAdd(prevPoint, FineScale(ray.direction, stepMid))
      accel == VScale(intersectionPoint, gravity(ku, ray.h2, intersectionPoint))
  IN [intersectionPoint |-> intersectionPoint,
      tempVelocity |-> VAdd(ray.direction, FineScale(accel, stepMid))]

\* The disk check of the loop: when the substep reached or crossed the plane
\* y = 0 inside the annulus, the disk sample is composited; stop is left as
\* it is.
diskCheckStops(ku, prevPoint, ray, color) ==
  LET side == IF prevPoint[2] > 0 THEN -1 ELSE IF prevPoint[2] < 0 THEN 1 ELSE 0
      diskSqrNorm == (ray.origin[1] * ray.origin[1] + ray.origin[3] * ray.origin[3]) \div FxOne
      hit == /\ ray.origin[2] * side >= 0
             /\ diskSqrNorm >= FxMul(ku.diskInnerRadius, ku.diskInnerRadius)
             /\ diskSqrNorm <= FxMul(ku.diskOuterRadius, ku.diskOuterRadius)
      diskColor == textureSampleLevel("diskTexture")
  IN IF hit
     THEN [color |-> addColor(diskColor, color), stop |-> TRUE,
           events |-> <<"disk", "composite">>,
           composite |-> [sample |-> diskColor, onto |-> color,
                          result |-> addColor(diskColor, color)]]
     ELSE [color |-> color, stop |-> FALSE, events |-> <<>>, composite |-> <<>>]

diskCheck(ku, prevPoint, ray, color) ==
  LET side == IF prevPoint[2] > 0 THEN -1 ELSE IF prevPoint[2] < 0 THEN 1 ELSE 0
      diskSqrNorm == (ray.origin[1] * ray.origin[1] + ray.origin[3] * ray.origin[3]) \div FxOne
      hit == /\ ray.origin[2] * side >= 0
             /\ diskSqrNorm >= FxMul(ku.diskInnerRadius, ku.diskInnerRadius)
             /\ diskSqrNorm <= FxMul(ku.diskOuterRadius, ku.diskOuterRadius)
      diskColor == textureSampleLevel("diskTexture")
  IN IF hit
     THEN [color |-> addColor(diskColor, color), stop |-> FALSE,
           events |-> <<"disk", "composite">>,
           composite |-> [sample |-> diskColor, onto |-> color,
                          result |-> addColor(diskColor, color)]]
     ELSE [color |-> color, stop |-> FALSE, events |-> <<>>, composite |-> <<>>]

\* The sky check of the loop.
skyCheck(ku, sqrNorm, color) ==
  LET skyColor == textureSampleLevel("skyTexture")
  IN IF sqrNorm > FxMul(ku.skyRadius, ku.skyRadius)
     THEN [color |-> addColor(skyColor, color), stop |-> TRUE,
           events |-> <<"sky", "composite">>,
           composite |-> [sample |-> skyColor, onto |-> color,
                          result |-> addColor(skyColor, color)]]
     ELSE [color |-> color, stop |-> FALSE, events |-> <<>>, composite |-> <<>>]

\* The uniforms as the kernel reads them from the uniform buffer.
kernelUniforms == KernelUniforms(uniformData(uniforms))

\* The start of traceRay for one ray of a dispatched frame: the ray leaves
\* the camera position in the view direction viewDir, which stands for the
\* normalized direction computed from the pixel, the camera basis and the
\* jitter.
traceRay(viewDir) ==
  /\ lastOp = "processFrame"
  /\ tPc = "idle"
  /\ tPc' = "loop"
  /\ tRay' = setInitialConditions(kernelUniforms.camera.position, viewDir)
  /\ tColor' = Black
  /\ tStop' = FALSE
  /\ tIter' = 0
  /\ tPrev' = <<>>
  /\ tEvents' = <<>>
  /\ tSubsteps' = 0
  /\ tComposite' = <<>>
  /\ tRefine' = <<>>
  /\ UNCHANGED tCoords
  /\ UNCHANGED <<driverVars, kernelVars, appVars>>

\* One turn of the loop of traceRay. The loop ends when iter reaches
\* maxIterations or stop is set. Otherwise the substep is taken; if it
\* crossed the horizon the binary search starts, and if not, the disk and the
\* sky check run and iter is incremented.
traceLoop ==
  /\ tPc = "loop"
  /\ \E ku \in {kernelUniforms} :
       IF ~(tIter < u32(ku.maxIterations)) \/ tStop
       THEN /\ tPc' = "done"
            /\ tEvents' = <<"return">>
            /\ UNCHANGED <<tRay, tColor, tStop, tIter, tPrev, tSubsteps,
                           tComposite, tRefine>>
       ELSE
         \E step \in {FxMul(FxDiv(Length(tRay.origin), Fx(30)), ku.blackHole.stepSize)} :
         \E moved \in {applyEquation(ku, tRay, step)} :
           LET prevPoint == tRay.origin
               prevSqrNorm == Dot(prevPoint, prevPoint)
               sqrNorm == Dot(moved.origin, moved.origin)
               rH2 == FxMul(ku.horizonRadius, ku.horizonRadius)
           IN /\ tRay' = moved
              /\ tPrev' = tRay
              /\ tSubsteps' = tSubsteps + 1
              /\ IF sqrNorm < rH2 /\ prevSqrNorm > rH2
                 THEN /\ tPc' = "bisect"
                      /\ tRefine' = [i |-> 0, step |-> step, stepLow |-> 0,
                                     stepHigh |-> Fine(step),
                                     intersectionPoint |-> prevPoint,
                                     tempVelocity |-> moved.direction,
                                     velocity |-> moved.direction]
                      /\ tEvents' = <<"substep", "horizon">>
                      /\ UNCHANGED <<tColor, tStop, tIter, tComposite>>
                 ELSE
                   \E d \in {diskCheck(ku, prevPoint, moved, tColor)} :
                   \E s \in {skyCheck(ku, sqrNorm, d.color)} :
                      /\ tPc' = "loop"
                      /\ tColor' = s.color
                      /\ tStop' = (d.stop \/ s.stop)
                      /\ tIter' = tIter + 1
                      /\ tEvents' = <<"substep">> \o d.events \o s.events
                      /\ tComposite' = IF s.composite # <<>> THEN s.composite
                                       ELSE IF d.composite # <<>> THEN d.composite
                                       ELSE tComposite
                      /\ UNCHANGED tRefine
  /\ UNCHANGED tCoords
  /\ UNCHANGED <<driverVars, kernelVars, appVars>>

\* One round of the binary search for the crossing point.
traceBisection ==
  /\ tPc = "bisect"
  /\ tRefine.i < BisectionRounds
  /\ \E ku \in {kernelUniforms} :
     \E stepMid \in {(tRefine.stepLow + tRefine.stepHigh) \div 2} :
     \E t \in {trial(ku, tPrev.origin, tRay, stepMid)} :
       LET distance == Length(t.intersectionPoint)
       IN tRefine' =
            [tRefine EXCEPT
               !.i = @ + 1,
               !.stepLow = IF distance < ku.horizonRadius THEN @ ELSE stepMid,
               !.stepHigh = IF distance < ku.horizonRadius THEN stepMid ELSE @,
               !.intersectionPoint = t.intersectionPoint,
               !.tempVelocity = t.tempVelocity]
  /\ tEvents' = <<"trial">>
  /\ UNCHANGED <<tPc, tRay, tColor, tStop, tIter, tPrev, tSubsteps, tComposite>>
  /\ UNCHANGED tCoords
  /\ UNCHANGED <<driverVars, kernelVars, appVars>>

\* After the binary search: the disk sample if the crossing point lies in
\* the disk, black composited by addColor otherwise; stop, and continue.
traceHorizon ==
  /\ tPc = "bisect"
  /\ ~(tRefine.i < BisectionRounds)
  /\ \E ku \in {kernelUniforms} :
       LET c == tRefine.intersectionPoint
           diskY == c[2]
           diskSqrNorm == (c[1] * c[1] + c[3] * c[3]) \div FxOne
       IN IF /\ Abs(diskY) < FxOne \div 10
             /\ diskSqrNorm >= FxMul(ku.diskInnerRadius, ku.diskInnerRadius)
             /\ diskSqrNorm <= FxMul(ku.diskOuterRadius, ku.diskOuterRadius)
          THEN /\ tColor' = textureSampleLevel("diskTexture")
               /\ tEvents' = <<"disk sample">>
               /\ UNCHANGED tComposite
          ELSE /\ tColor' = addColor(BlackColor, tColor)
               /\ tEvents' = <<"composite">>
               /\ tComposite' = [sample |-> BlackColor, onto |-> tColor,
                                 result |-> addColor(BlackColor, tColor)]
  /\ tStop' = TRUE
  /\ tIter' = tIter + 1
  /\ tPc' = "loop"
  /\ UNCHANGED <<tRay, tPrev, tSubsteps, tRefine>>
  /\ UNCHANGED tCoords
  /\ UNCHANGED <<driverVars, kernelVars, appVars>>

\* ------------------------------------------------------------ specification
Scenes == {AppScene, AppSceneLoaded}
MaxIterationsInputs == {25000}
JitterScaleInputs == {10}
RaysPerFrameInputs == {1000, 1500}
Kinds == {"disk", "sky"}

\* traceRay's result for a frame: black everywhere.
DarkRays == {BlackRays(width, height)}

\* traceRay's results for a frame: black everywhere, or one pixel lit.
OneLitRays ==
  DarkRays \cup
  {[p \in Pixels(width, height) |-> IF p = q THEN c ELSE Black] :
     q \in Pixels(width, height), c \in RayColors \ {Black}}

\* Frames, resets, resizes and the setters.
NextFrames ==
  \/ \E ray \in OneLitRays : processFrame(1000, ray)
  \/ Reset
  \/ \E w \in 1 .. MaxW, h \in 1 .. MaxH : resize(w, h)
  \/ \E s \in Scenes : setScene(s)
  \/ \E v \in MaxIterationsInputs : setMaxIterations(v)

SpecFrames == Init /\ [][NextFrames]_vars

\* Frames and the setters.
NextSetters ==
  \/ \E rpf \in RaysPerFrameInputs, ray \in DarkRays : processFrame(rpf, ray)
  \/ Reset
  \/ \E s \in Scenes : setScene(s)
  \/ \E v \in MaxIterationsInputs : setMaxIterations(v)
  \/ \E v \in JitterScaleInputs : setJitterScale(v)

SpecSetters == Init /\ [][NextSetters]_vars

\* Frames and texture loads.
NextLoads ==
  \/ \E ray \in DarkRays : processFrame(1000, ray)
  \/ \E k \in Kinds : loadTextureCall(k)
  \/ \E l \in DOMAIN loads : loadFetched(l)
  \/ \E l \in DOMAIN loads : loadFailed(l)
  \/ \E l \in DOMAIN loads : loadDestroyOld(l)
  \/ \E l \in DOMAIN loads : loadInstall(l)

SpecLoads == Init /\ [][NextLoads]_vars

\* Frames, resizes and image exports.
NextExport ==
  \/ \E ray \in DarkRays : processFrame(1000, ray)
  \/ \E w \in 1 .. MaxW, h \in 1 .. MaxW : resize(w, h)
  \/ getImageData
  \/ \E r \in DOMAIN reads : mapResolved(r)
  \/ \E r \in DOMAIN reads : mapRejected(r)

SpecExport == Init /\ [][NextExport]_vars

\* Resizes, texture loads and image exports, interleaved, and the first frame
\* after each of them.
NextResources ==
  \/ \E ray \in DarkRays : frameCount = 0 /\ processFrame(1000, ray)
  \/ resize(MaxW, 1)
  \/ \E k \in Kinds : loadTextureCall(k)
  \/ \E l \in DOMAIN loads : loadFetched(l)
  \/ \E l \in DOMAIN loads : loadFailed(l)
  \/ \E l \in DOMAIN loads : loadDestroyOld(l)
  \/ \E l \in DOMAIN loads : loadInstall(l)
  \/ getImageData
  \/ \E r \in DOMAIN reads : mapResolved(r)
  \/ \E r \in DOMAIN reads : mapRejected(r)

SpecResources == Init /\ [][NextResources]_vars

\* The browser settles the mapAsync promise of every export: its then-callback
\* or its rejection is eventually delivered.
mapSettles(r) == r \in DOMAIN reads /\ (mapResolved(r) \/ mapRejected(r))

SpecExportFair ==
  Init /\ [][NextExport]_vars /\ \A r \in 1 .. MaxReads : WF_vars(mapSettles(r))

\* Slider moves: the coefficient to 0, the field of view to 150, the quality
\* to 1; camera distance and the two angles.
SliderInputs == {<<"potentialCoefficient", 0>>, <<"fov", 150>>, <<"quality", 1>>}
CameraInputs == {<<Fx(20), 147, 299>>, <<Fx(5), 0, 157>>}

\* The App: its buttons, sliders, frame callbacks and the device's errors.
NextApp ==
  \/ toggleRendering
  \/ toggleFrameByFrame
  \/ render
  \/ \E in \in SliderInputs : updateParameters(in[1], in[2])
  \/ \E in \in CameraInputs : updateCameraPosition(in[1], in[2], in[3])
  \/ uncapturederror

SpecApp == Init /\ [][NextApp]_vars

\* A scene whose field of view (170), coefficient (6.0) and step size (0.5)
\* are outside the ranges of the App's sliders.
OutOfRangeScene ==
  [AppSceneLoaded EXCEPT !.fov = 170, !.potentialCoefficient = Fx(6),
                         !.stepSize = FxOne \div 2]
\* One whose field of view (20), coefficient (-6.0) and step size (0.005)
\* are below them.
BelowRangeScene ==
  [AppSceneLoaded EXCEPT !.fov = 20, !.potentialCoefficient = Fx(-6),
                         !.stepSize = FxOne \div 200]
SceneInputs == {AppSceneLoaded, OutOfRangeScene, BelowRangeScene}

\* Scenes handed to the driver, and frames.
NextScenes ==
  \/ \E rpf \in RaysPerFrameInputs, ray \in DarkRays : processFrame(rpf, ray)
  \/ Reset
  \/ \E s \in SceneInputs : setScene(s)

SpecScenes == Init /\ [][NextScenes]_vars

\* ------------------------------------------------------- one ray, step by step
\* The App's scene before its hitables are pushed, with the camera moved by
\* the sliders to distance 5 just above the disk plane, no deflection
\* (coefficient 0) and the largest step size of the slider (0.2).
FlatScene ==
  LET e == [AppScene EXCEPT !.cameraDistance = Fx(5), !.cameraAngleHorz = 0,
                            !.cameraAngleVert = 147,
                            !.potentialCoefficient = 0, !.stepSize = 205]
  IN [e EXCEPT !.cameraPosition = updateCameraFromSpherical(e)]
\* The loaded scene from the same camera with the strongest attraction of
\* the slider (coefficient -5).
CurvedScene ==
  [FlatScene EXCEPT !.hitables = AppSceneLoaded.hitables,
                    !.potentialCoefficient = Fx(-5)]
\* A scene the sliders cannot produce: the camera at (2.5, 0, 0), half a unit
\* from the horizon, coefficient 5 and step size 12, so that the first
\* substep is one unit long.
NearHorizonScene ==
  [AppSceneLoaded EXCEPT !.cameraPosition = Vec3(2560, 0, 0),
                         !.potentialCoefficient = Fx(5), !.stepSize = Fx(12)]
\* Two more: the camera at (3, 20/1024, 0), one substep above the disk, and
\* the camera at (5, 0, 0), in the plane of the disk; no deflection.
LandingScene ==
  [AppSceneLoaded EXCEPT !.cameraPosition = Vec3(3072, 20, 0),
                         !.potentialCoefficient = 0, !.stepSize = 205]
PlaneScene ==
  [AppSceneLoaded EXCEPT !.cameraPosition = Vec3(5120, 0, 0),
                         !.potentialCoefficient = 0, !.stepSize = Fx(3)]
TraceScenes == {FlatScene, CurvedScene, NearHorizonScene, LandingScene, PlaneScene}

\* The view directions (unit vectors) followed from a camera position: from
\* the camera next to the horizon (-4/5, 0, 3/5), in the disk plane; from
\* the others one into the hole across the disk plane, one upwards to the
\* sky and one downwards across the disk to the sky; from the camera just
\* above the disk straight down, and from the camera in the plane of the disk
\* (-3/5, 0, 4/5), in that plane.
ViewDirections(position) ==
  IF position = NearHorizonScene.cameraPosition
  THEN {Vec3(-819, 0, 614)}
  ELSE IF position = LandingScene.cameraPosition
  THEN {Vec3(0, -FxOne, 0)}
  ELSE IF position = PlaneScene.cameraPosition
  THEN {Vec3(-614, 0, 819)}
  ELSE {Vec3(-993, -248, 0), Vec3(-614, 819, 0), Vec3(-614, -819, 0)}

\* An iteration limit that ends rays in flight.
ShortMaxIterations == 5

\* A scene and an iteration limit are set, the first frame is dispatched,
\* and one of its rays is followed through traceRay.
NextTrace ==
  \/ \E s \in TraceScenes : tPc = "idle" /\ frameCount = 0 /\ setScene(s)
  \/ tPc = "idle" /\ frameCount = 0 /\ setMaxIterations(ShortMaxIterations)
  \/ \E ray \in DarkRays :
       tPc = "idle" /\ frameCount = 0 /\ processFrame(1000, ray)
  \/ \E viewDir \in ViewDirections(uniforms.cameraPosition) : traceRay(viewDir)
  \/ traceLoop
  \/ traceBisection
  \/ traceHorizon

SpecTrace == Init /\ [][NextTrace]_vars

\* ------------------------------------------------------- one substep
\* Positions on the grid {-1, 0, 1}^3 without the centre, three velocities
\* and two substep sizes.
EquationPoints ==
  {Vec3(Fx(x), Fx(y), Fx(z)) : x \in -1 .. 1, y \in -1 .. 1, z \in -1 .. 1}
    \ {Vec3(0, 0, 0)}
EquationVelocities == {Vec3(-FxOne, 0, 0), Vec3(0, FxOne, 0), Vec3(614, 0, 819)}
EquationSteps == {FxOne, FxOne \div 2}

\* applyEquation on a ray at point with velocity, as an iteration of the
\* loop of traceRay calls it for a ray in flight.
substep(point, velocity, step) ==
  /\ lastOp = "processFrame"
  /\ tPc = "idle"
  /\ tPc' = "equation"
  /\ tPrev' = setInitialConditions(point, velocity)
  /\ tRay' = applyEquation(kernelUniforms, tPrev', step)
  /\ tEvents' = <<"applyEquation", step>>
  /\ tSubsteps' = 1
  /\ UNCHANGED <<tColor, tStop, tIter, tComposite, tRefine>>
  /\ UNCHANGED tCoords
  /\ UNCHANGED <<driverVars, kernelVars, appVars>>

\* A scene is set, the first frame is dispatched, and one substep of one of
\* its rays is taken.
NextEquation ==
  \/ \E s \in {FlatScene, CurvedScene} :
       tPc = "idle" /\ frameCount = 0 /\ setScene(s)
  \/ \E ray \in DarkRays :
       tPc = "idle" /\ frameCount = 0 /\ processFrame(1000, ray)
  \/ \E point \in EquationPoints, velocity \in EquationVelocities,
        step \in EquationSteps : substep(point, velocity, step)

SpecEquation == Init /\ [][NextEquation]_vars

\* ------------------------------------------------- texture coordinates
\* The literal 3.14159 of the kernel and Math.PI, as floating-point values.
FloatPi == FRound(<<MathPI, FxOne>>)

\* A uniform of the kernel as a floating-point value.
FloatOf(fx) == FRound(Norm(fx, FxOne))

\* WGSL clamp(e, low, high) = min(max(e, low), high).
clamp(e, low, high) == RMin(RMax(e, low), high)

\* mapDiskCoords of the kernel.
mapDiskCoords(ku, r, phi) ==
  LET innerRadius == FloatOf(ku.diskInnerRadius)
      outerRadius == FloatOf(ku.diskOuterRadius)
      x0 == FRemainder(FDiv(phi, FMul(Rat(2), FloatPi)), One)
      x1 == IF RLt(x0, Zero) THEN FAdd(x0, One) ELSE x0
      x == IF RLt(x1, Half) THEN FRound(<<49, 100>>) ELSE FRound(<<51, 100>>)
      y == FDiv(FSub(r, innerRadius), FSub(outerRadius, innerRadius))
  IN IF RLt(r, innerRadius) \/ RGt(r, outerRadius)
     THEN <<Zero, One>>
     ELSE <<x, clamp(y, Zero, One)>>

\* mapSkyCoords of the kernel.
mapSkyCoords(theta, phi) ==
  LET x0 == FRemainder(FDiv(phi, FMul(Rat(2), FloatPi)), One)
      x == IF RLt(x0, Zero) THEN FAdd(x0, One) ELSE x0
      y0 == FRemainder(FDiv(theta, FloatPi), One)
      y == IF RLt(y0, Zero) THEN FAdd(y0, One) ELSE y0
  IN <<x, y>>

\* new DiscMapping(rMin, rMax, sizeX, sizeY) and new SphericalMapping(sizeX,
\* sizeY): the constructors reject a size of zero.
DiscMapping(rMin, rMax, sizeX, sizeY) ==
  [rMin |-> rMin, rMax |-> rMax, sizeX |-> Rat(sizeX), sizeY |-> Rat(sizeY)]
SphericalMapping(sizeX, sizeY) == [sizeX |-> Rat(sizeX), sizeY |-> Rat(sizeY)]

DiscMappingMapNoCap(this, r, theta, phi) ==
  LET x0 == NumberRemainder(
              FFloor(FMul(FDiv(phi, FMul(Rat(2), FloatPi)), this.sizeX)),
              this.sizeX)
      x == IF RLt(x0, Zero) THEN FAdd(this.sizeX, x0) ELSE x0
      y0 == FFloor(FMul(FDiv(FSub(r, this.rMin), FSub(this.rMax, this.rMin)),
                        this.sizeY))
  IN IF RLt(r, this.rMin) \/ RGt(r, this.rMax)
     THEN [x |-> Zero, y |-> FSub(this.sizeY, One)]
     ELSE [x |-> x, y |-> y0]

\* DiscMapping.map.
DiscMappingMap(this, r, theta, phi) ==
  LET x0 == NumberRemainder(
              FFloor(FMul(FDiv(phi, FMul(Rat(2), FloatPi)), this.sizeX)),
              this.sizeX)
      x == IF RLt(x0, Zero) THEN FAdd(this.sizeX, x0) ELSE x0
      y0 == FFloor(FMul(FDiv(FSub(r, this.rMin), FSub(this.rMax, this.rMin)),
                        this.sizeY))
      y == IF RGt(y0, FSub(this.sizeY, One)) THEN FSub(this.sizeY, One) ELSE y0
  IN IF RLt(r, this.rMin) \/ RGt(r, this.rMax)
     THEN [x |-> Zero, y |-> FSub(this.sizeY, One)]
     ELSE [x |-> x, y |-> y]

\* SphericalMapping.map.
SphericalMappingMap(this, r, theta, phi) ==
  LET x0 == NumberRemainder(
              FFloor(FMul(FDiv(phi, FMul(Rat(2), FloatPi)), this.sizeX)),
              this.sizeX)
      x == IF RLt(x0, Zero) THEN FAdd(this.sizeX, x0) ELSE x0
      y0 == NumberRemainder(FFloor(FMul(FDiv(theta, FloatPi), this.sizeY)),
                            this.sizeY)
      y == IF RLt(y0, Zero) THEN FAdd(this.sizeY, y0) ELSE y0
  IN [x |-> x, y |-> y]

\* toSpherical of the kernel, for the points on the coordinate axes, where
\* acos and atan2 return a multiple of pi / 2.
toSpherical(p) ==
  LET r == FloatOf(Abs(p[1]) + Abs(p[2]) + Abs(p[3]))
      theta == IF p[3] > 0 THEN Zero
               ELSE IF p[3] < 0 THEN FloatPi
               ELSE FDiv(FloatPi, Rat(2))
      phi == IF p[2] > 0 THEN FDiv(FloatPi, Rat(2))
             ELSE IF p[2] < 0 THEN RSub(Zero, FDiv(FloatPi, Rat(2)))
             ELSE IF p[1] < 0 THEN FloatPi
             ELSE Zero
  IN IF r = Zero THEN <<Zero, Zero, Zero>> ELSE <<r, theta, phi>>

\* sky.setTextureOffset(Math.PI / 2) of the App.
SkyTextureOffset == FDiv(FloatPi, Rat(2))

\* The radii, the angles, the texture sizes and the points the mappings are
\* applied to: radii below, on the edges of, inside and above the disk;
\* angles below zero, just below zero, inside and beyond one turn; a single
\* texel and a texture of 8 x 4; the points at distance 32 on the axes.
MappingRadii == {Rat(2), FloatOf(DiskInnerRadius), Rat(7), Rat(12), Rat(13)}
MappingAngles == {Rat(-8), Rat(-3), <<-1, 1024>>, Zero, Half, Rat(3), Rat(7), Rat(20)}
MappingSizes == {<<1, 1>>, <<8, 4>>}
AxisPoints ==
  {Vec3(Fx(32), 0, 0), Vec3(Fx(-32), 0, 0), Vec3(0, Fx(32), 0),
   Vec3(0, Fx(-32), 0), Vec3(0, 0, Fx(32)), Vec3(0, 0, Fx(-32))}

\* A ray of a dispatched frame reaches the disk hit test of the loop of
\* traceRay at radius r and azimuth phi: the texture coordinates it looks up.
diskLookup(r, phi) ==
  /\ lastOp = "processFrame"
  /\ tPc = "idle"
  /\ tPc' = "lookup"
  /\ tCoords' = [fn |-> "mapDiskCoords", r |-> r, phi |-> phi,
                 coords |-> mapDiskCoords(kernelUniforms, r, phi)]
  /\ UNCHANGED <<tRay, tColor, tStop, tIter, tPrev, tEvents, tSubsteps,
                 tComposite, tRefine>>
  /\ UNCHANGED <<driverVars, kernelVars, appVars>>

\* The same for mapSkyCoords.
skyLookup(theta, phi) ==
  /\ lastOp = "processFrame"
  /\ tPc = "idle"
  /\ tPc' = "lookup"
  /\ tCoords' = [fn |-> "mapSkyCoords", theta |-> theta, phi |-> phi,
                 coords |-> mapSkyCoords(theta, phi)]
  /\ UNCHANGED <<tRay, tColor, tStop, tIter, tPrev, tEvents, tSubsteps,
                 tComposite, tRefine>>
  /\ UNCHANGED <<driverVars, kernelVars, appVars>>

\* TexturedDisk.getColor: the texel of the disk texture at (r, theta, phi).
getColor(size, r, theta, phi) ==
  /\ lastOp = "processFrame"
  /\ tPc = "idle"
  /\ tPc' = "lookup"
  /\ LET textureMap == DiscMapping(FloatOf(DiskInnerRadius), FloatOf(DiskOuterRadius),
                                   size[1], size[2])
     IN tCoords' = [fn |-> "DiscMapping.map", r |-> r, phi |-> phi,
                    sizeX |-> size[1], sizeY |-> size[2],
                    texel |-> DiscMappingMap(textureMap, r, theta, phi)]
  /\ UNCHANGED <<tRay, tColor, tStop, tIter, tPrev, tEvents, tSubsteps,
                 tComposite, tRefine>>
  /\ UNCHANGED <<driverVars, kernelVars, appVars>>

\* Sky.hit for a point beyond the sky radius: the texel it reads.
SkyHit(size, point) ==
  /\ lastOp = "processFrame"
  /\ tPc = "idle"
  /\ "Sky" \in {scene.hitables[i] : i \in DOMAIN scene.hitables}
  /\ Dot(point, point) > FxMul(SkyRadius, SkyRadius)
  /\ tPc' = "lookup"
  /\ LET textureMap == SphericalMapping(size[1], size[2])
         s == toSpherical(point)
     IN tCoords' = [fn |-> "Sky.hit", theta |-> s[2], phi |-> s[3],
                    sizeX |-> size[1], sizeY |-> size[2],
                    texel |-> SphericalMappingMap(textureMap, s[1], s[2],
                                                  FAdd(s[3], SkyTextureOffset))]
  /\ tStop' = TRUE
  /\ UNCHANGED <<tRay, tColor, tIter, tPrev, tEvents, tSubsteps, tComposite,
                 tRefine>>
  /\ UNCHANGED <<driverVars, kernelVars, appVars>>

\* SphericalMapping.map at any angles.
skyTexel(size, theta, phi) ==
  /\ lastOp = "processFrame"
  /\ tPc = "idle"
  /\ tPc' = "lookup"
  /\ tCoords' = [fn |-> "SphericalMapping.map", theta |-> theta, phi |-> phi,
                 sizeX |-> size[1], sizeY |-> size[2],
                 texel |-> SphericalMappingMap(SphericalMapping(size[1], size[2]),
                                               One, theta, phi)]
  /\ UNCHANGED <<tRay, tColor, tStop, tIter, tPrev, tEvents, tSubsteps,
                 tComposite, tRefine>>
  /\ UNCHANGED <<driverVars, kernelVars, appVars>>

\* The sky branch of the loop of traceRay for a ray at point.
skyEscape(point) ==
  /\ lastOp = "processFrame"
  /\ tPc = "idle"
  /\ Dot(point, point) > FxMul(kernelUniforms.skyRadius, kernelUniforms.skyRadius)
  /\ tPc' = "lookup"
  /\ LET s == toSpherical(point)
         skyColor == textureSampleLevel("skyTexture")
     IN /\ tCoords' = [fn |-> "skyTexture", theta |-> s[2], phi |-> s[3],
                       coords |-> mapSkyCoords(s[2], s[3])]
        /\ tColor' = addColor(skyColor, tColor)
        /\ tComposite' = [sample |-> skyColor, onto |-> tColor,
                          result |-> addColor(skyColor, tColor)]
  /\ tStop' = TRUE
  /\ tEvents' = <<"sky", "composite">>
  /\ UNCHANGED <<tRay, tIter, tPrev, tSubsteps, tRefine>>
  /\ UNCHANGED <<driverVars, kernelVars, appVars>>

\* A scene is set, the first frame is dispatched, and one texture lookup of
\* one of its rays is followed.
NextMapping ==
  \/ \E s \in {AppScene, AppSceneLoaded} :
       tPc = "idle" /\ frameCount = 0 /\ setScene(s)
  \/ \E ray \in DarkRays :
       tPc = "idle" /\ frameCount = 0 /\ processFrame(1000, ray)
  \/ \E r \in MappingRadii, phi \in MappingAngles : diskLookup(r, phi)
  \/ \E theta \in MappingAngles, phi \in MappingAngles : skyLookup(theta, phi)
  \/ \E size \in MappingSizes, r \in MappingRadii, phi \in MappingAngles :
       getColor(size, r, Zero, phi)
  \/ \E size \in MappingSizes, theta \in MappingAngles, phi \in MappingAngles :
       skyTexel(size, theta, phi)
  \/ \E size \in MappingSizes, point \in AxisPoints : SkyHit(size, point)
  \/ \E point \in AxisPoints : skyEscape(point)

SpecMapping == Init /\ [][NextMapping]_vars

\* ------------------------------------------------- one dispatch, step by step
\* The widths and heights followed: one pixel, one full workgroup, and a
\* workgroup and a bit.
KernelDims == {1, WorkgroupSize, WorkgroupSize + MaxExtra}

\* main: the accumulation-buffer slots invocation gid reads and writes.
mainTouches(gid, w, h) == IF InBounds(gid, w, h) THEN Slots(gid, w) ELSE {}

KernelGrid == workgroupCount(kW, kH)
KernelTotal == Cardinality(Invocations(KernelGrid))
KernelSlots == 0 .. (createAccumulationBuffer(0, kW, kH).size \div BytesPerFloat) - 1

\* The kNext-th invocation of the grid, row by row.
KernelGid ==
  <<kNext % (KernelGrid[1] * WorkgroupSize), kNext \div (KernelGrid[1] * WorkgroupSize)>>

InitKernel ==
  /\ DriverInit
  /\ AppInit
  /\ TraceIdle
  /\ kW \in KernelDims
  /\ kH \in KernelDims
  /\ kNext = 0
  /\ kOwner = [i \in KernelSlots |-> {}]
  /\ kOob = {}
  /\ kRan = {}

\* One invocation of main runs.
KernelStep ==
  LET gid == KernelGid
      touches == mainTouches(gid, kW, kH)
  IN  /\ kNext < KernelTotal
      /\ kNext' = kNext + 1
      /\ kOwner' = [i \in DOMAIN kOwner |->
                      IF i \in touches THEN kOwner[i] \cup {gid} ELSE kOwner[i]]
      /\ kOob' = kOob \cup {<<gid, i>> : i \in touches \ DOMAIN kOwner}
      /\ kRan' = IF InBounds(gid, kW, kH) THEN kRan \cup {gid} ELSE kRan
      /\ UNCHANGED <<kW, kH>>
      /\ UNCHANGED <<driverVars, appVars, traceVars>>

SpecKernel == InitKernel /\ [][KernelStep]_vars

\* ---------------------------------------------------------------- claims
\* The accumulator value of channel c of pixel p.
AccAt(acc, p, c) == acc[pixelIndex(p, width) + c - 1]

\* C1: after the n-th frame since the last reset, resize or setScene, the
\* kernel has run with frame index n - 1 and the accumulator of every pixel
\* is the arithmetic mean of the n ray colours computed at that pixel.
C1_AccumulatorIsMean ==
  nSamples > 0 =>
    /\ uniforms.frameCount = nSamples - 1
    /\ \A p \in Pixels(width, height), c \in 1 .. FloatsPerPixel :
         AccAt(accData, p, c) = RDiv(sumR[p][c], Rat(nSamples))

\* Three frames accumulated, one of them lit at some pixel: the mean is 1/3.
C1_Witness ==
  /\ nSamples = 3
  /\ \E p \in Pixels(width, height) :
       /\ sumR[p][3] = One
       /\ AccAt(accData, p, 3) = <<1, 3>>

\* C2: the processFrame that follows reset() leaves in the accumulation
\* buffer exactly the ray colour of that frame, and in the output image that
\* colour as stored, whatever the buffer held and whatever the frame count was.
C2_FirstFrameAfterReset ==
  [][(lastOp = "reset" /\ lastOp' = "processFrame") =>
       \A p \in Pixels(width, height), c \in 1 .. FloatsPerPixel :
         /\ AccAt(accData', p, c) = sumR'[p][c]
         /\ outData'[p][c] = Unorm8(sumR'[p][c])]_vars

\* reset() has just been called after at least two frames, and the buffer
\* holds a non-zero accumulated value.
C2_Witness ==
  /\ lastOp = "reset"
  /\ uniforms.frameCount >= 1
  /\ frameCount = 0
  /\ \E i \in DOMAIN accData : accData[i] # Zero

\* C3: right after setScene, setMaxIterations, setJitterScale,
\* loadDiskTexture or loadSkyTexture has taken effect, frameCount is 0.
C3_SettersReset ==
  lastOp \in {"setScene", "setMaxIterations", "setJitterScale",
              "loadDiskTexture", "loadSkyTexture"}
    => frameCount = 0

\* C4: the installed compute bind group never references a destroyed disk or
\* sky texture.
C4_BindGroupTexturesAlive ==
  {uniformBindGroup.disk, uniformBindGroup.sky} \cap destroyed = {}

\* C5: when a texture load rejects, the installed textures and the compute
\* bind group stay as they were, nothing is destroyed, and frameCount keeps
\* its value.
C5_FailedLoadKeepsState ==
  [][\A l \in DOMAIN loads :
       (loads[l].pc # "rejected" /\ loads'[l].pc = "rejected") =>
         /\ UNCHANGED <<diskTexture, skyTexture, uniformBindGroup, destroyed,
                        frameCount>>
         /\ {diskTexture', skyTexture'} \cap destroyed' = {}
         /\ BindGroupResources(uniformBindGroup') \cap destroyed' = {}]_vars

\* A load has just rejected after frames were rendered.
C5_Witness ==
  /\ lastOp = "loadRejected"
  /\ \E l \in DOMAIN loads : loads[l].pc = "rejected"
  /\ frameCount > 0

\* C6: a processFrame packs the frame counter it starts with, dispatches
\* ceil(W/16) x ceil(H/16) workgroups, adds 1 to the counter and returns W*H.
C6_ProcessFrameContract ==
  [][lastOp' = "processFrame" =>
       /\ uniforms'.frameCount = frameCount
       /\ frameCount' = frameCount + 1
       /\ lastReturn' = width * height
       /\ \E i \in DOMAIN queueLog' :
            /\ queueLog'[i].op = "submit"
            /\ \E j \in DOMAIN queueLog'[i].commands :
                 LET cmd == queueLog'[i].commands[j]
                 IN  /\ cmd.pass = "compute"
                     /\ WorkgroupSize * (cmd.dispatch[1] - 1) < width
                     /\ width <= WorkgroupSize * cmd.dispatch[1]
                     /\ WorkgroupSize * (cmd.dispatch[2] - 1) < height
                     /\ height <= WorkgroupSize * cmd.dispatch[2]]_vars

\* A second frame was run with raysPerFrame = 1500 and returned W*H.
C6_Witness ==
  /\ lastOp = "processFrame"
  /\ uniforms.raysPerFrame = 1500
  /\ uniforms.frameCount = 1
  /\ frameCount = 2
  /\ lastReturn = width * height

\* C7: a processFrame issues to the queue the uniform write and then exactly
\* one submission, whose command buffer holds the compute pass and after it
\* the presentation pass.
C7_FrameOrder ==
  lastOp = "processFrame" =>
    /\ Len(queueLog) = 2
    /\ queueLog[1].op = "writeBuffer"
    /\ queueLog[2].op = "submit"
    /\ Len(queueLog[2].commands) = 2
    /\ queueLog[2].commands[1].pass = "compute"
    /\ queueLog[2].commands[2].pass = "render"

C7_Witness ==
  /\ lastOp = "processFrame"
  /\ frameCount = 2
  /\ Len(queueLog) = 2
  /\ queueLog[2].commands[2].pass = "render"

\* C8: resize(W', H') destroys the old output image and accumulation buffer,
\* creates a W' x H' output image and a W'*H'*16-byte accumulation buffer,
\* points both bind groups at them and sets frameCount to 0.
C8_ResizeContract ==
  [][lastOp' = "resize" =>
       /\ {outputTexture.id, accumulationBuffer.id} \subseteq destroyed'
       /\ {outputTexture'.id, accumulationBuffer'.id} \cap destroyed' = {}
       /\ outputTexture'.w = width' /\ outputTexture'.h = height'
       /\ accumulationBuffer'.size
            = width' * height' * FloatsPerPixel * BytesPerFloat
       /\ uniformBindGroup'.output = outputTexture'.id
       /\ uniformBindGroup'.accum = accumulationBuffer'.id
       /\ renderBindGroup'.output = outputTexture'.id
       /\ frameCount' = 0]_vars

\* A resize to another size has just run after frames were rendered.
C8_Witness ==
  /\ lastOp = "resize"
  /\ uniforms.frameCount >= 1
  /\ uniforms.width # width
  /\ frameCount = 0
  /\ outputTexture.id \notin destroyed

C10_OnePixelOneInvocation ==
  /\ kOob = {}
  /\ kRan \subseteq Pixels(kW, kH)
  /\ \A i \in DOMAIN kOwner :
       /\ Cardinality(kOwner[i]) <= 1
       /\ \A g \in kOwner[i] :
            /\ g \in Pixels(kW, kH)
            /\ i \div FloatsPerPixel = g[2] * kW + g[1]
  /\ kNext = KernelTotal =>
       /\ kRan = Pixels(kW, kH)
       /\ \A i \in DOMAIN kOwner : Cardinality(kOwner[i]) = 1

\* A dispatch of two by two workgroups has finished.
C10_Witness ==
  /\ kNext = KernelTotal
  /\ kW > WorkgroupSize
  /\ kH > WorkgroupSize
  /\ Cardinality(kRan) = kW * kH

\* C12: after a frame, every uniform field the kernel reads holds the value
\* updateUniforms packed for that field: the camera vectors, tanFov =
\* tan(fov / 2), the equation's coefficient and step size, the image size, the
\* frame count, the radii and the iteration and jitter parameters; so the
\* camera-space x of pixel column i is (i / W - 0.5) * tan(fov / 2).
C12_UniformLayout ==
  lastOp = "processFrame" =>
    LET ku == KernelUniforms(uniformData(uniforms))
    IN  /\ ku.camera.position = uniforms.cameraPosition
        /\ ku.camera.lookAt = uniforms.cameraLookAt
        /\ ku.camera.up = uniforms.upVector
        /\ ku.camera.tanFov = uniforms.tanFov
        /\ ku.blackHole.potentialCoefficient = uniforms.potentialCoefficient
        /\ ku.blackHole.stepSize = uniforms.stepSize
        /\ ku.width = uniforms.width
        /\ ku.height = uniforms.height
        /\ ku.frameCount = uniforms.frameCount
        /\ ku.diskInnerRadius = uniforms.diskInnerRadius
        /\ ku.diskOuterRadius = uniforms.diskOuterRadius
        /\ ku.skyRadius = uniforms.skyRadius
        /\ ku.horizonRadius = uniforms.horizonRadius
        /\ ku.randomSeed = uniforms.randomSeed
        /\ ku.maxIterations = uniforms.maxIterations
        /\ ku.jitterScale = uniforms.jitterScale
        /\ \A i \in 0 .. uniforms.width - 1 :
             cameraSpaceX(ku, i) =
               FxMul(FxDiv(Fx(i), Fx(uniforms.width)) - FxOne \div 2,
                     uniforms.tanFov)

\* The position the claim gives for the spherical fields of scene sc.
SphericalPosition(sc) ==
  Vec3(FxMul(FxMul(sc.cameraDistance, MathSin[sc.cameraAngleVert]),
             MathCos[sc.cameraAngleHorz]),
       FxMul(sc.cameraDistance, MathCos[sc.cameraAngleVert]),
       FxMul(FxMul(sc.cameraDistance, MathSin[sc.cameraAngleVert]),
             MathSin[sc.cameraAngleHorz]))

\* C11: once a handler has set the camera's spherical fields, the scene's
\* cameraPosition is (d sin(theta) cos(phi), d cos(theta), d sin(theta) sin(phi))
\* of the current fields, and the camera position packed for every frame
\* rendered since is that position: no frame uses a stale position.
C11_CameraFollowsSpherical ==
  cameraEdited =>
    /\ scene.cameraPosition = SphericalPosition(scene)
    /\ lastOp = "processFrame" =>
         uniforms.cameraPosition = SphericalPosition(scene)

\* The camera sliders were moved to distance 5, angles 0 and 1.57 while
\* rendering was on, and the frame rendered by the handler used (5, 0.005, 0).
C11_Witness ==
  /\ cameraEdited
  /\ isRendering
  /\ lastOp = "processFrame"
  /\ scene.cameraDistance = Fx(5)
  /\ uniforms.cameraPosition = Vec3(Fx(5), 5, 0)
  /\ uniforms.frameCount = 0

\* C14: the camera and equation values packed for a frame are inside the valid
\* ranges whatever scene the driver was given: the field of view within 30 to
\* 150 degrees (and tanFov within the tangents of their halves), the potential
\* coefficient within -5 to 5 and the step size within 0.01 to 0.20.
C14_UniformsClamped ==
  lastOp = "processFrame" =>
    /\ (30 * MathPI) \div 180 <= uniforms.fovRadians
    /\ uniforms.fovRadians <= (150 * MathPI) \div 180
    /\ MathTanHalf[30] <= uniforms.tanFov
    /\ uniforms.tanFov <= MathTanHalf[150]
    /\ Fx(-5) <= uniforms.potentialCoefficient
    /\ uniforms.potentialCoefficient <= Fx(5)
    /\ FxOne \div 100 <= uniforms.stepSize
    /\ uniforms.stepSize <= FxOne \div 5 + 1

\* C15: once an uncaptured device error has been logged, no frame is
\* submitted: no step after it is a processFrame that raises the frame count.
C15_NoSubmitAfterDeviceError ==
  [][errorLog > 0 => ~(lastOp' = "processFrame" /\ frameCount' = frameCount + 1)]_vars

\* C13: with a scene whose hitable list is empty and coefficient 0, no ray
\* of a frame sets stop or composites anything, so its color stays
\* (0, 0, 0, 0).
C13_EmptyFlatSceneStaysZero ==
  (tPc # "idle" /\ scene.hitables = <<>> /\ uniforms.potentialCoefficient = 0)
    => (~tStop /\ tComposite = <<>> /\ tColor = Black)

\* C16: in the loop of traceRay, stop is set by an iteration exactly when its
\* substep crossed the horizon or left the sky radius, a disk hit alone
\* leaves it unset, and a horizon crossing runs neither the disk nor the sky
\* check; once stop is set, or iter has reached maxIterations, the loop ends
\* with the ray, the color and the number of substeps as they are, so that
\* there are never more than maxIterations substeps.
C16_StopAndIterationLimit ==
  [][LET rH2 == FxMul(uniforms.horizonRadius, uniforms.horizonRadius)
         sky2 == FxMul(uniforms.skyRadius, uniforms.skyRadius)
         crossed == /\ Dot(tRay'.origin, tRay'.origin) < rH2
                    /\ Dot(tRay.origin, tRay.origin) > rH2
         escaped == Dot(tRay'.origin, tRay'.origin) > sky2
         sampled == /\ tComposite' # tComposite
                    /\ tComposite'.sample # BlackColor
     IN /\ tPc = "loop" =>
             IF tStop \/ ~(tIter < maxIterations)
             THEN /\ tPc' = "done"
                  /\ UNCHANGED <<tRay, tColor, tStop, tSubsteps, tComposite>>
             ELSE /\ tSubsteps' = tSubsteps + 1
                  /\ tSubsteps' <= maxIterations
                  /\ IF crossed
                     THEN tPc' = "bisect" /\ ~sampled /\ UNCHANGED <<tColor, tStop>>
                     ELSE tPc' = "loop" /\ tStop' = escaped
        /\ tPc = "bisect" =>
             /\ ~sampled
             /\ UNCHANGED <<tRay, tSubsteps>>
             /\ tPc' = "loop" => tStop']_vars

\* A ray that hit the disk, went on, and was stopped by the sky.
C16_Witness ==
  /\ tPc = "done"
  /\ tStop
  /\ tComposite # <<>>
  /\ tComposite.sample = SkyTexel
  /\ tComposite.onto = Grey
  /\ tSubsteps < maxIterations

\* The compositing of a new sample S onto the existing color C as C17 states
\* it.
Compositing(S, C) ==
  IF S[4] = Zero THEN C
  ELSE
    LET b == RDiv(RAdd(RMax(RMax(S[1], S[2]), S[3]),
                       RMin(RMin(S[1], S[2]), S[3])), Rat(2))
        channel(i) ==
          RAdd(RMul(RSub(One, b), C[i]),
               RDiv(RMul(RMax(S[i], Zero), Rat(255)), Rat(205)))
        unit(x) == RMax(Zero, RMin(x, One))
    IN Vec4(unit(channel(1)), unit(channel(2)), unit(channel(3)), One)

\* C17: every compositing of a texture sample S onto the color C of a ray
\* (disk hit or sky escape) gives C if S has alpha 0, and otherwise alpha 1
\* and the channels clamp((1 - b) * C + max(S, 0) * 255/205, 0, 1), b being
\* the brightness of S.
C17_AdditiveCompositing ==
  (tComposite # <<>> /\ tComposite.sample # BlackColor)
    => tComposite.result = Compositing(tComposite.sample, tComposite.onto)

\* C18: the trials of the horizon refinement start from the position and
\* the direction the ray had before the substep, so the trial with the whole
\* step ends where the substep ended, and the bracket starts with its low end
\* (the position before the substep) outside and its high end inside the
\* horizon.
C18_TrialsRerunSubstep ==
  tRefine # <<>> =>
    LET endOfStep ==
          trial(kernelUniforms, tPrev.origin, tRay, Fine(tRefine.step)).intersectionPoint
    IN /\ tRefine.velocity = tPrev.direction
       /\ endOfStep = tRay.origin
       /\ Length(tPrev.origin) >= uniforms.horizonRadius
       /\ Length(endOfStep) < uniforms.horizonRadius

\* C19: the horizon refinement runs 10 rounds, keeps 0 <= stepLow <=
\* stepHigh <= s, ends with stepHigh - stepLow = s / 2^10, and returns a
\* point whose distance from the centre differs from the horizon radius by
\* at most s / 2^10 (up to two units of rounding of the fixed point).
C19_RefinementConverges ==
  tRefine # <<>> =>
    /\ 0 <= tRefine.stepLow
    /\ tRefine.stepLow <= tRefine.stepHigh
    /\ tRefine.stepHigh <= Fine(tRefine.step)
    /\ tPc # "bisect" =>
         /\ tRefine.i = 10
         /\ (tRefine.stepHigh - tRefine.stepLow) * 1024 = Fine(tRefine.step)
         /\ Abs(Length(tRefine.intersectionPoint) - uniforms.horizonRadius)
              <= tRefine.step \div 1024 + 2

\* The refined crossing point c lies in the disk: |c.y| < 0.1 and
\* c.x^2 + c.z^2 within [rInner^2, rOuter^2].
InDiskAnnulus(c) ==
  /\ Abs(c[2]) < FxOne \div 10
  /\ (c[1] * c[1] + c[3] * c[3]) \div FxOne
       >= FxMul(uniforms.diskInnerRadius, uniforms.diskInnerRadius)
  /\ (c[1] * c[1] + c[3] * c[3]) \div FxOne
       <= FxMul(uniforms.diskOuterRadius, uniforms.diskOuterRadius)

\* C20: a horizon crossing whose refined point lies in the disk sets the
\* color to the disk sample; every other horizon crossing composites opaque
\* black onto the accumulated color; both set stop.
C20_HorizonColor ==
  (tRefine # <<>> /\ tPc # "bisect") =>
    /\ tStop
    /\ IF InDiskAnnulus(tRefine.intersectionPoint)
       THEN tColor = textureSampleLevel("diskTexture")
       ELSE /\ tComposite # <<>>
            /\ tComposite.sample = BlackColor
            /\ tColor = Compositing(BlackColor, tComposite.onto)

\* C30: an input event on the coefficient, field of view or quality slider
\* leaves every scene parameter whose slider did not move, and the camera, as
\* they were; in particular the step size.
C30_SliderChangesOnlyItsParameter ==
  [][sliders' # sliders =>
       /\ sliders'.stepSize = sliders.stepSize
            => scene'.stepSize = scene.stepSize
       /\ sliders'.potentialCoefficient = sliders.potentialCoefficient
            => scene'.potentialCoefficient = scene.potentialCoefficient
       /\ sliders'.fov = sliders.fov => scene'.fov = scene.fov
       /\ scene'.cameraPosition = scene.cameraPosition
       /\ scene'.cameraLookAt = scene.cameraLookAt
       /\ scene'.upVector = scene.upVector]_vars

\* C25: while rendering is on there is at most one pending animation-frame
\* callback, so at most one chain of App.render calls processFrame.
C25_SingleRenderLoop == isRendering => pendingFrames <= 1

\* C21: with coefficient 0, a substep of size s from a position p other than
\* the centre with velocity v ends at p + v * s with the velocity v, and no
\* substep changes h2, the coefficient or the step size.
C21_FlatSubstepIsStraight ==
  [][tPc' = "equation" =>
       /\ tRay'.h2 = tPrev'.h2
       /\ uniforms' = uniforms
       /\ scene' = scene
       /\ (uniforms.potentialCoefficient = 0 /\ tPrev'.origin # Vec3(0, 0, 0)) =>
            /\ tRay'.origin = VAdd(tPrev'.origin, VScale(tPrev'.direction, tEvents'[2]))
            /\ tRay'.direction = tPrev'.direction]_vars

\* A whole number from 0 to size - 1.
IsTexelIndex(x, size) == x[2] = 1 /\ 0 <= x[1] /\ x[1] < size

\* C22: the disk mappings are total and bounded.  For a radius outside the
\* disk, mapDiskCoords returns (0, 1) and DiscMapping.map the texel
\* (0, sizeY - 1); for a radius inside it, mapDiskCoords returns u = 0.49 or
\* 0.51 and 0 <= v <= 1, and DiscMapping.map whole numbers 0 <= x < sizeX and
\* 0 <= y < sizeY.
C22_DiskMappingBounded ==
  /\ (tCoords # <<>> /\ tCoords.fn = "mapDiskCoords") =>
       IF \/ RLt(tCoords.r, FloatOf(uniforms.diskInnerRadius))
          \/ RGt(tCoords.r, FloatOf(uniforms.diskOuterRadius))
       THEN tCoords.coords = <<Zero, One>>
       ELSE /\ tCoords.coords[1] \in {FRound(<<49, 100>>), FRound(<<51, 100>>)}
            /\ ~RLt(tCoords.coords[2], Zero)
            /\ ~RGt(tCoords.coords[2], One)
  /\ (tCoords # <<>> /\ tCoords.fn = "DiscMapping.map") =>
       IF \/ RLt(tCoords.r, FloatOf(DiskInnerRadius))
          \/ RGt(tCoords.r, FloatOf(DiskOuterRadius))
       THEN tCoords.texel = [x |-> Zero, y |-> Rat(tCoords.sizeY - 1)]
       ELSE /\ IsTexelIndex(tCoords.texel.x, tCoords.sizeX)
            /\ IsTexelIndex(tCoords.texel.y, tCoords.sizeY)

\* A lookup on the outer edge of the disk at a negative azimuth in a texture
\* of 8 x 4: the texel is in the last row and not in the first column.
C22_Witness ==
  /\ tCoords # <<>>
  /\ tCoords.fn = "DiscMapping.map"
  /\ tCoords.r = FloatOf(DiskOuterRadius)
  /\ RLt(tCoords.phi, Zero)
  /\ tCoords.sizeX = 8
  /\ tCoords.texel.y = Rat(3)
  /\ RGt(tCoords.texel.x, Zero)

\* C23: the sky mappings wrap.  For any angles, negative or beyond one turn,
\* mapSkyCoords returns 0 <= u < 1 and 0 <= v < 1, and SphericalMapping.map
\* whole numbers 0 <= x < sizeX and 0 <= y < sizeY.
C23_SkyMappingWraps ==
  /\ (tCoords # <<>> /\ tCoords.fn = "mapSkyCoords") =>
       /\ ~RLt(tCoords.coords[1], Zero) /\ RLt(tCoords.coords[1], One)
       /\ ~RLt(tCoords.coords[2], Zero) /\ RLt(tCoords.coords[2], One)
  /\ (tCoords # <<>> /\ tCoords.fn \in {"SphericalMapping.map", "Sky.hit"}) =>
       /\ IsTexelIndex(tCoords.texel.x, tCoords.sizeX)
       /\ IsTexelIndex(tCoords.texel.y, tCoords.sizeY)

\* C24: a ray that escapes beyond the sky radius looks the sky texture up at
\* (theta, phi + phiOffset), phiOffset being the offset the Sky of the scene
\* was given, composites the sample onto its color and stops.
C24_SkySampledAtOffset ==
  /\ (tCoords # <<>> /\ tCoords.fn = "skyTexture") =>
       /\ tCoords.coords = mapSkyCoords(tCoords.theta, FAdd(tCoords.phi, SkyTextureOffset))
       /\ tColor = addColor(textureSampleLevel("skyTexture"), tComposite.onto)
       /\ tStop
  /\ (tCoords # <<>> /\ tCoords.fn = "Sky.hit") =>
       /\ tCoords.texel =
            SphericalMappingMap(SphericalMapping(tCoords.sizeX, tCoords.sizeY), One,
                                tCoords.theta, FAdd(tCoords.phi, SkyTextureOffset))
       /\ tStop

\* An iteration of the loop composited the disk sample.
DiskComposited(events) ==
  \E i \in 1 .. Len(events) - 1 : events[i] = "disk" /\ events[i + 1] = "composite"

\* C29: a ray composites the disk sample at most once per crossing of the
\* plane y = 0.  An iteration composites it only when its substep reached or
\* crossed the plane, and when two iterations in a row composite it, the
\* point between them lies off the plane: they are two crossings, not one
\* crossing (or a stretch in the plane) counted twice.
C29_OneCompositePerCrossing ==
  [][(tPc = "loop" /\ tPc' = "loop" /\ tSubsteps' = tSubsteps + 1
        /\ DiskComposited(tEvents')) =>
       /\ tPrev'.origin[2] * tRay'.origin[2] <= 0
       /\ DiskComposited(tEvents) => tRay.origin[2] # 0]_vars

\* C26: at every submission of processFrame and of getImageData, whatever
\* resizes and texture loads ran before it, nothing the installed bind groups
\* reference (and not the output image the export copies) is destroyed; and
\* every destroy() call of resize, of a texture load and of an export hits a
\* resource that was not destroyed before.
C26_SubmitsSeeLiveResources ==
  [][/\ (lastOp' = "processFrame" /\ frameCount' = frameCount + 1) => SubmitValid
     /\ Len(reads') > Len(reads) =>
          /\ SubmitValid
          /\ reads'[Len(reads')].copy.texture \notin destroyed
     /\ (lastOp' = "resize" /\ outputTexture' # outputTexture) =>
          Cardinality(destroyed' \ destroyed) = 2
     /\ (\E l \in DOMAIN loads : loads[l].pc = "decode" /\ loads'[l].pc = "swap") =>
          Cardinality(destroyed' \ destroyed) = 1
     /\ (\E r \in DOMAIN reads : reads[r].pc = "mapping" /\ reads'[r].pc = "resolved") =>
          Cardinality(destroyed' \ destroyed) = 1]_vars

\* A frame is submitted after a resize and after two loads of the same
\* texture that were in flight together have both been installed.
C26_Witness ==
  /\ lastOp = "processFrame"
  /\ Gen = 1
  /\ Len(loads) = 2
  /\ loads[1].kind = loads[2].kind
  /\ loads[1].pc = "done" /\ loads[2].pc = "done"
  /\ Cardinality(destroyed) = 4

\* C27: once no texture load is in flight, the installed disk and sky
\* textures are those of the most recently issued loadDiskTexture and
\* loadSkyTexture calls that succeeded.
C27_LastIssuedLoadWins ==
  (\A l \in DOMAIN loads : loads[l].pc \in {"done", "rejected"}) =>
    \A k \in Kinds :
      LET done == {l \in DOMAIN loads : loads[l].kind = k /\ loads[l].pc = "done"}
      IN done # {} => CurrentTexture(k) = <<k, MaxOf(done)>>

\* C28: every getImageData call eventually settles with its staging buffer
\* destroyed, and a call that resolves delivers an image of the width and
\* height the processor had at the call, with W * H * 4 bytes.
C28_ExportSettles ==
  \A r \in 1 .. MaxReads :
    [](r \in DOMAIN reads =>
         <>(/\ r \in DOMAIN reads
            /\ reads[r].pc \in {"resolved", "rejected"}
            /\ reads[r].buffer.id \in destroyed
            /\ reads[r].pc = "resolved" =>
                 /\ reads[r].w = reads[r].copy.extent[1]
                 /\ reads[r].h = reads[r].copy.extent[2]
                 /\ reads[r].dataLen = reads[r].w * reads[r].h * BytesPerTexel))

=============================================================================
